---- MODULE Spec2Model ----
(***************************************************************************)
(* Model of the httpbench load-generation engine: Benchmark.Run and its    *)
(* three load-shape controllers, the worker loop, the request generator,   *)
(* executeRequest and the statistics Collector; with them the rate limiter, *)
(* the response validator, Config.Validate, the derived rates and the      *)
(* master's distribution of the load over worker nodes.                    *)
(* Source: pkg/benchmark/monitor.go, pkg/stats/collector.go,               *)
(* pkg/validator/validator.go, pkg/config/config.go,                       *)
(* pkg/reporter/reporter.go, pkg/distributed/distributed.go.               *)
(***************************************************************************)
EXTENDS Integers, Sequences, FiniteSets, TLC

\* ---- bounds of the model ------------------------------------------------
MaxConc == 2       \* largest worker count of a configuration
MaxTotal == 2      \* largest load.total_requests of a plain constant run
MaxShapeTotal == 1 \* largest load.total_requests of a ramp-up, burst or monitored run
MaxSteps == 2      \* largest ramp_up.steps
MaxBursts == 2     \* burst-interval ticks the burst controller may take
MaxMonTicks == 1   \* monitor ticks after the monitor's initial snapshot
TickInterval == 2  \* RateLimiter.interval (1 s / rps), in time units
MaxTime == 6       \* time units the clock may advance
MaxWaits == 3      \* returns of RateLimiter.Wait that are recorded
MaxBodyLen == 2    \* longest response body handed to the validator
MaxLatency == 2    \* largest latency and validation.response_time_max, in time units
MaxResets == 1     \* calls of Collector.Reset
MaxSeconds == 2    \* seconds the clock of the collector runs for
MaxSnapshots == 2  \* calls of Snapshot by one task
MaxCallers == 3    \* goroutines calling RecordError / RecordStatusCode at once
MaxWorkerNodes == 3 \* worker nodes of a distributed run
MaxLoad == 4       \* largest load.concurrency and load.rate_limit given to distributeWorkload
MaxDuration == 1   \* largest duration, total and measured seconds given to a pure function
BodyLen == 1       \* len(body) of every response whose body was read
ContentLength == 1 \* req.ContentLength of every request

\* recordTimePoint appends a point only when at least this many seconds have
\* passed since c.lastSnapshot (the clock of the collector counts seconds).
MinPointGap == 1

\* ---- vocabulary ---------------------------------------------------------
Kinds == {"request_creation", "network", "body_read", "validation"}
Codes == {200, 500}
AllowedStatus == {200}
Snappers == {"main", "monitor"}
Slots == 1..(MaxConc * (MaxBursts + 1))

WorkCtx == [name |-> "workCtx", gen |-> 0]
TimeoutCtx == [name |-> "timeoutCtx", gen |-> 0]
BurstCtx(g) == [name |-> "burstCtx", gen |-> g]
NoCtx == [name |-> "none", gen |-> 0]

NoWorker == [pc |-> "none", ctx |-> NoCtx, kind |-> "none", code |-> 0, aborted |-> FALSE]
IdleWorker(c) == [pc |-> "idle", ctx |-> c, kind |-> "none", code |-> 0, aborted |-> FALSE]
GatedWorker(c) == [pc |-> "gated", ctx |-> c, kind |-> "none", code |-> 0, aborted |-> FALSE]

NoSnapshot == [TotalRequests |-> 0, SuccessRequests |-> 0, TotalErrors |-> 0,
               BytesReceived |-> 0, BytesSent |-> 0,
               ErrorsByType |-> [k \in Kinds |-> 0], StatusCodes |-> [c \in Codes |-> 0]]
NoResults == [set |-> FALSE, TotalRequests |-> 0, SuccessRequests |-> 0, FailedRequests |-> 0,
              BytesReceived |-> 0, BytesSent |-> 0,
              ErrorsByType |-> [k \in Kinds |-> 0], StatusCodes |-> [c \in Codes |-> 0]]

\* Response headers the validator may be configured to check.
HeaderKeys == {"X-Check"}

\* The validator is not being called.
NoValInput == [cfg |-> [StatusCodes |-> {}, HeaderValidation |-> {}, MinSize |-> 0,
                        MaxSize |-> 0, Contains |-> <<>>, NotContains |-> <<>>,
                        ContentPatterns |-> <<>>, ResponseTimeMax |-> 0],
               resp |-> [StatusCode |-> 200, Header |-> [k \in HeaderKeys |-> ""]],
               body |-> <<>>, latency |-> 0]

VARIABLES
    cfg,                 \* config.Config, immutable during the run
    pcMain, wg, results, err, returned,
    cancelled,           \* the context passed to Run was cancelled
    deadlineFired,       \* the load.duration timer of runConstant fired
    workers,             \* slot -> goroutine running Benchmark.worker
    chanLen, chanClosed, \* requestChan
    pcGen, requestCount, \* generateRequests
    pcRamp, currentConcurrency, rampI, step, wcLen,   \* runRampUp controller, workerControl
    pcBurst, burstGen, spawnI, burstExpired,          \* runBurst controller
    pcMon, monTicks,     \* realtimeMonitor
    snapPc, snap,        \* Collector.Snapshot in progress, per caller
    totalRequests, successRequests, totalErrors, bytesReceived, bytesSent,
    errorsByType, statusCodes,   \* stats.Collector
    now,                 \* the clock, in time units
    tickerC, tickerNext, tickerStopped,   \* RateLimiter.ticker: its channel, next firing, Stop
    pcWait, returnTimes, \* a caller of RateLimiter.Wait; the times at which a tick released it
    closed,              \* Benchmark.Close has returned
    valIn, valCall, valErr,  \* a call of Validator.Validate / ValidateWithLatency
    pureIn, pureCall, pureOut,   \* a call of Config.Validate or of a rate computation
    timeSeries, lastSnapshot,    \* Collector.timeSeries, Collector.lastSnapshot
    tp,                  \* recordTimePoint's locals now and duration, per caller of Snapshot
    held,                \* per caller of Snapshot: the snapshots returned before its call began
    snapCalls,           \* per caller of Snapshot: the calls it has made
    seriesCopy,          \* the slice a caller got from GetTimeSeries
    resets,               \* Collector.Reset: completed calls, position of a call in progress
    counterAt, counters, \* the map structure of errorsByType and statusCodes: key -> counter, the counters
    recCalls             \* callers of RecordError / RecordStatusCode

byteCounters == <<bytesReceived, bytesSent>>
collector == <<totalRequests, successRequests, totalErrors, bytesReceived, bytesSent,
               errorsByType, statusCodes>>
ctxVars == <<cancelled, deadlineFired, returned>>
mainVars == <<pcMain, results, err>>
chanVars == <<chanLen, chanClosed>>
genVars == <<pcGen, requestCount>>
rampVars == <<pcRamp, currentConcurrency, rampI, step, wcLen>>
burstVars == <<pcBurst, burstGen, spawnI, burstExpired>>
monVars == <<pcMon, monTicks>>
snapVars == <<snapPc, snap>>
limVars == <<now, tickerC, tickerNext, tickerStopped, pcWait, returnTimes, closed>>
valVars == <<valIn, valCall, valErr>>
\* State that Benchmark.Run and its goroutines never write.
pureVars == <<pureIn, pureCall, pureOut>>
seriesVars == <<timeSeries, lastSnapshot, held, snapCalls, seriesCopy, resets>>
keyVars == <<counterAt, counters, recCalls>>
offRun == <<limVars, valVars, pureVars, keyVars, seriesVars>>
vars == <<cfg, mainVars, wg, ctxVars, workers, chanVars, genVars, rampVars, burstVars,
          monVars, snapVars, collector, offRun, tp>>

\* ---- configuration ------------------------------------------------------
\* Configurations accepted by Config.Validate (concurrency > 0, duration or
\* total_requests set).  Duration is 0 (unset) or 1 (set): time is not measured,
\* a timer that is armed may fire at any moment.
NoRampUp == [Enabled |-> FALSE, StartConcurrency |-> 0, EndConcurrency |-> 0, Steps |-> 1]
NoBurst == [Enabled |-> FALSE, BaseConcurrency |-> 0, BurstConcurrency |-> 0]

LoadBudgets(maxTotal) == {b \in [Duration : 0..1, TotalRequests : 0..maxTotal] :
                             b.Duration > 0 \/ b.TotalRequests > 0}

RampUps == {r \in [Enabled : {TRUE}, StartConcurrency : 0..MaxConc,
                   EndConcurrency : 1..MaxConc, Steps : 1..MaxSteps] :
                r.StartConcurrency <= r.EndConcurrency}

Bursts == {b \in [Enabled : {TRUE}, BaseConcurrency : 1..MaxConc,
                  BurstConcurrency : 1..MaxConc] :
                b.BaseConcurrency <= b.BurstConcurrency}

Configs ==
    {[LoadPattern |-> "constant", Concurrency |-> c, Duration |-> b.Duration,
      TotalRequests |-> b.TotalRequests, RateLimit |-> r, RealtimeMonitor |-> FALSE,
      RampUp |-> NoRampUp, BurstMode |-> NoBurst] :
        c \in 1..MaxConc, b \in LoadBudgets(MaxTotal), r \in 0..1}
    \cup
    {[LoadPattern |-> "constant", Concurrency |-> 1, Duration |-> b.Duration,
      TotalRequests |-> b.TotalRequests, RateLimit |-> 0, RealtimeMonitor |-> TRUE,
      RampUp |-> NoRampUp, BurstMode |-> NoBurst] :
        b \in LoadBudgets(MaxShapeTotal)}
    \cup
    {[LoadPattern |-> "ramp_up", Concurrency |-> 1, Duration |-> b.Duration,
      TotalRequests |-> b.TotalRequests, RateLimit |-> 0, RealtimeMonitor |-> FALSE,
      RampUp |-> ru, BurstMode |-> NoBurst] :
        ru \in RampUps \cup {NoRampUp}, b \in LoadBudgets(MaxShapeTotal)}
    \cup
    {[LoadPattern |-> "burst", Concurrency |-> 1, Duration |-> b.Duration,
      TotalRequests |-> b.TotalRequests, RateLimit |-> 0, RealtimeMonitor |-> FALSE,
      RampUp |-> NoRampUp, BurstMode |-> bu] :
        bu \in Bursts \cup {NoBurst}, b \in LoadBudgets(MaxShapeTotal)}

\* The controller Run dispatches to (Run's switch and the Enabled fallbacks).
Pattern ==
    IF cfg.LoadPattern = "ramp_up" /\ cfg.RampUp.Enabled THEN "ramp_up"
    ELSE IF cfg.LoadPattern = "burst" /\ cfg.BurstMode.Enabled THEN "burst"
    ELSE "constant"

\* The context handed to the generator, the monitor and the long-lived workers.
RunCtx == IF Pattern = "constant" THEN TimeoutCtx ELSE WorkCtx

\* ctx.Done() is closed.  Run's deferred cancel() closes every context on return.
CtxDone(c) ==
    \/ cancelled
    \/ returned
    \/ c.name = "timeoutCtx" /\ deadlineFired
    \/ c.name = "burstCtx" /\ (c.gen < burstGen \/ (c.gen = burstGen /\ burstExpired))

\* cap(requestChan)
ChanCap ==
    IF Pattern = "ramp_up" THEN cfg.RampUp.EndConcurrency
    ELSE IF Pattern = "burst" THEN cfg.BurstMode.BurstConcurrency
    ELSE cfg.Concurrency

\* Tokens the generator may produce in the model: total_requests when it is
\* set, and this many when the run is bounded by its duration alone.
TokenCap == IF cfg.LoadPattern = "constant" /\ ~cfg.RealtimeMonitor THEN MaxTotal ELSE MaxShapeTotal

BurstExtra == cfg.BurstMode.BurstConcurrency - cfg.BurstMode.BaseConcurrency

\* The state in which Benchmark.Run is called with a configuration of cfgs.
RunInit(cfgs) ==
    /\ cfg \in cfgs
    /\ pcMain = "start" /\ wg = 0 /\ results = NoResults /\ err = "unset" /\ returned = FALSE
    /\ cancelled = FALSE /\ deadlineFired = FALSE
    /\ workers = [w \in Slots |-> NoWorker]
    /\ chanLen = 0 /\ chanClosed = FALSE
    /\ pcGen = "off" /\ requestCount = 0
    /\ pcRamp = "off" /\ currentConcurrency = 0 /\ rampI = 0 /\ step = 0 /\ wcLen = 0
    /\ pcBurst = "off" /\ burstGen = 0 /\ spawnI = 0 /\ burstExpired = FALSE
    /\ pcMon = "off" /\ monTicks = 0
    /\ snapPc = [s \in Snappers |-> "idle"] /\ snap = [s \in Snappers |-> NoSnapshot]
    /\ totalRequests = 0 /\ successRequests = 0 /\ totalErrors = 0
    /\ bytesReceived = 0 /\ bytesSent = 0
    /\ errorsByType = [k \in Kinds |-> 0] /\ statusCodes = [c \in Codes |-> 0]

\* NewRateLimiter: a ticker of period interval whose channel is empty; no caller
\* is in Wait and Close has not been called.
NewRateLimiter ==
    /\ now = 0
    /\ tickerC = 0 /\ tickerNext = TickInterval /\ tickerStopped = FALSE
    /\ pcWait = "idle" /\ returnTimes = <<>>
    /\ closed = FALSE

ValidatorIdle == valIn = NoValInput /\ valCall = "none" /\ valErr = "unset"

\* No pure function is being called.
PureIdle == pureIn = "none" /\ pureCall = "none" /\ pureOut = "unset"

\* NewCollector at time 0: an empty time series, lastSnapshot = time.Now(); no
\* Snapshot or GetTimeSeries call has been made.
\* The two maps of the collector with their keys, and the goroutines that
\* record under them; a caller that is not in RecordError or RecordStatusCode.
Maps == {"errorsByType", "statusCodes"}
KeysOf(m) == IF m = "errorsByType" THEN Kinds ELSE Codes
Callers == 1..MaxCallers
NoCall == [pc |-> "idle", map |-> "none", key |-> "none", ref |-> 0, exists |-> FALSE]
NoTp == [now |-> 0, duration |-> 0]
NoSeriesCopy == [got |-> FALSE, shared |-> FALSE, elems |-> <<>>]
NoReset == [n |-> 0, pc |-> "idle"]
NewCollector ==
    /\ timeSeries = <<>> /\ lastSnapshot = 0
    /\ tp = [s \in Snappers |-> NoTp]
    /\ held = [s \in Snappers |-> {}]
    /\ snapCalls = [s \in Snappers |-> 0]
    /\ seriesCopy = NoSeriesCopy
    /\ resets = NoReset
    /\ counterAt = [m \in Maps |-> [k \in KeysOf(m) |-> 0]] /\ counters = <<>>
    /\ recCalls = [c \in Callers |-> NoCall]

Init == RunInit(Configs) /\ NewRateLimiter /\ ValidatorIdle /\ PureIdle /\ NewCollector

\* ---- Benchmark.Run and the load-shape controllers' start-up -------------
\* Run -> runConstant: start Concurrency workers, the generator and the monitor.
runConstant ==
    /\ pcMain = "start" /\ Pattern = "constant"
    /\ workers' = [w \in Slots |-> IF w <= cfg.Concurrency THEN IdleWorker(TimeoutCtx)
                                   ELSE NoWorker]
    /\ wg' = cfg.Concurrency
    /\ pcGen' = "loop"
    /\ pcMon' = IF cfg.RealtimeMonitor THEN "start" ELSE "off"
    /\ pcMain' = "wait"
    /\ UNCHANGED <<cfg, offRun, tp, results, err, ctxVars, chanVars, requestCount, rampVars, burstVars,
                   monTicks, snapVars, collector>>

\* Run -> runRampUp: pre-spawn EndConcurrency workers behind workerControl.
runRampUp ==
    /\ pcMain = "start" /\ Pattern = "ramp_up"
    /\ workers' = [w \in Slots |-> IF w <= cfg.RampUp.EndConcurrency THEN GatedWorker(WorkCtx)
                                   ELSE NoWorker]
    /\ wg' = cfg.RampUp.EndConcurrency
    /\ pcRamp' = "initial"
    /\ currentConcurrency' = cfg.RampUp.StartConcurrency
    /\ rampI' = 0
    /\ pcGen' = "loop"
    /\ pcMon' = IF cfg.RealtimeMonitor THEN "start" ELSE "off"
    /\ pcMain' = "wait"
    /\ UNCHANGED <<cfg, offRun, tp, results, err, ctxVars, chanVars, requestCount, step, wcLen, burstVars,
                   monTicks, snapVars, collector>>

\* Run -> runBurst: start BaseConcurrency workers and the burst controller.
runBurst ==
    /\ pcMain = "start" /\ Pattern = "burst"
    /\ workers' = [w \in Slots |-> IF w <= cfg.BurstMode.BaseConcurrency THEN IdleWorker(WorkCtx)
                                   ELSE NoWorker]
    /\ wg' = cfg.BurstMode.BaseConcurrency
    /\ pcBurst' = "select"
    /\ pcGen' = "loop"
    /\ pcMon' = IF cfg.RealtimeMonitor THEN "start" ELSE "off"
    /\ pcMain' = "wait"
    /\ UNCHANGED <<cfg, offRun, tp, results, err, ctxVars, chanVars, requestCount, rampVars, burstGen,
                   spawnI, burstExpired, monTicks, snapVars, collector>>

\* ---- Benchmark.worker ---------------------------------------------------
Exit(w) == [workers EXCEPT ![w] = [NoWorker EXCEPT !.pc = "exited"]]
WorkerFrame == <<cfg, offRun, tp, mainVars, ctxVars, genVars, rampVars, burstVars, monVars, snapVars>>

\* select case <-ctx.Done(): return (then the deferred wg.Done()).
workerCtxDone(w) ==
    /\ workers[w].pc = "idle" /\ CtxDone(workers[w].ctx)
    /\ workers' = Exit(w)
    /\ wg' = wg - 1
    /\ UNCHANGED <<WorkerFrame, chanVars, collector>>

\* select case _, ok := <-requestChan with !ok: channel closed and drained.
workerChanClosed(w) ==
    /\ workers[w].pc = "idle" /\ chanLen = 0 /\ chanClosed
    /\ workers' = Exit(w)
    /\ wg' = wg - 1
    /\ UNCHANGED <<WorkerFrame, chanVars, collector>>

\* ---- Benchmark.executeRequest -------------------------------------------
\* Validator.Validate with validation.status_codes = AllowedStatus and no header
\* or body rule configured: only validateStatusCode can reject.
validateStatusCode(c) == c \in AllowedStatus

Fail(w, k, a) == [workers EXCEPT ![w].pc = "recErrTotal", ![w].kind = k, ![w].aborted = a]
Done(w) == [workers EXCEPT ![w] = IdleWorker(workers[w].ctx)]
ExecFrame == <<WorkerFrame, wg, chanVars>>

\* worker's select case _, ok := <-requestChan with ok: take a token and call
\* executeRequest.  createRequest fails (template render or
\* http.NewRequestWithContext), or the request is built and handed to
\* client.Do; a request whose context is already done is refused by the
\* transport before it is sent.
createRequest(w) ==
    /\ workers[w].pc = "idle" /\ chanLen > 0
    /\ chanLen' = chanLen - 1
    /\ \/ workers' = Fail(w, "request_creation", FALSE)
       \/ /\ CtxDone(workers[w].ctx)
          /\ workers' = Fail(w, "network", FALSE)
       \/ /\ ~CtxDone(workers[w].ctx)
          /\ workers' = [workers EXCEPT ![w].pc = "do"]
    /\ UNCHANGED <<WorkerFrame, wg, chanClosed, collector>>

\* client.Do, io.ReadAll and validator.Validate of a request in flight: a
\* transport error or client timeout, a body read error, or a response with
\* some status that the validator accepts or rejects.  The request carries the
\* worker's context (http.NewRequestWithContext(ctx, ...)), so once that context
\* is done client.Do or the body read may return the context's error: the
\* request is aborted (aborted = TRUE).
clientDo(w) ==
    /\ workers[w].pc = "do"
    /\ \/ workers' = Fail(w, "network", FALSE)
       \/ workers' = Fail(w, "body_read", FALSE)
       \/ /\ CtxDone(workers[w].ctx)
          /\ \E k \in {"network", "body_read"} : workers' = Fail(w, k, TRUE)
       \/ \E c \in Codes :
             workers' = IF validateStatusCode(c)
                        THEN [workers EXCEPT ![w].pc = "recReqTotal", ![w].code = c]
                        ELSE [Fail(w, "validation", FALSE) EXCEPT ![w].code = c]
    /\ UNCHANGED <<ExecFrame, collector>>

\* ---- stats.Collector ----------------------------------------------------
\* RecordError: c.totalErrors.Add(1)
RecordError_total(w) ==
    /\ workers[w].pc = "recErrTotal"
    /\ totalErrors' = totalErrors + 1
    /\ workers' = [workers EXCEPT ![w].pc = "recErrKind", ![w].aborted = FALSE]
    /\ UNCHANGED <<ExecFrame, totalRequests, successRequests, byteCounters, errorsByType, statusCodes>>

\* Mutant of RecordError_kind: the per-kind counter is left as it was.
RecordError_kind_notCounted(w) ==
    /\ workers[w].pc = "recErrKind"
    /\ workers' = IF workers[w].kind = "request_creation" THEN Done(w)
                  ELSE [workers EXCEPT ![w].pc = "recReqTotal"]
    /\ UNCHANGED <<ExecFrame, totalRequests, successRequests, totalErrors, byteCounters,
                   errorsByType, statusCodes>>

\* Mutant of RecordError_kind: every failure is counted under "network".
RecordError_kind_alwaysNetwork(w) ==
    /\ workers[w].pc = "recErrKind"
    /\ errorsByType' = [errorsByType EXCEPT !["network"] = @ + 1]
    /\ workers' = IF workers[w].kind = "request_creation" THEN Done(w)
                  ELSE [workers EXCEPT ![w].pc = "recReqTotal"]
    /\ UNCHANGED <<ExecFrame, totalRequests, successRequests, totalErrors, byteCounters, statusCodes>>

\* RecordError: counter.Add(1) on errorsByType[errorType]; executeRequest then
\* returns (request_creation) or goes on to RecordRequest(latency, 0, 0, false).
RecordError_kind(w) ==
    /\ workers[w].pc = "recErrKind"
    /\ errorsByType' = [errorsByType EXCEPT ![workers[w].kind] = @ + 1]
    /\ workers' = IF workers[w].kind = "request_creation" THEN Done(w)
                  ELSE [workers EXCEPT ![w].pc = "recReqTotal"]
    /\ UNCHANGED <<ExecFrame, totalRequests, successRequests, totalErrors, byteCounters, statusCodes>>

\* RecordRequest: c.totalRequests.Add(1)
RecordRequest_total(w) ==
    /\ workers[w].pc = "recReqTotal"
    /\ totalRequests' = totalRequests + 1
    /\ workers' = [workers EXCEPT ![w].pc = "recReqOutcome"]
    /\ UNCHANGED <<ExecFrame, successRequests, totalErrors, byteCounters, errorsByType, statusCodes>>

\* Mutant of RecordRequest_outcome: the success test is inverted.
RecordRequest_outcome_inverted(w) ==
    /\ workers[w].pc = "recReqOutcome"
    /\ IF workers[w].kind # "none"
       THEN successRequests' = successRequests + 1 /\ UNCHANGED totalErrors
       ELSE totalErrors' = totalErrors + 1 /\ UNCHANGED successRequests
    /\ workers' = [workers EXCEPT ![w].pc = "recBytesReceived"]
    /\ UNCHANGED <<ExecFrame, totalRequests, byteCounters, errorsByType, statusCodes>>

\* RecordRequest: successRequests.Add(1) or totalErrors.Add(1).
RecordRequest_outcome(w) ==
    /\ workers[w].pc = "recReqOutcome"
    /\ IF workers[w].kind = "none"
       THEN successRequests' = successRequests + 1 /\ UNCHANGED totalErrors
       ELSE totalErrors' = totalErrors + 1 /\ UNCHANGED successRequests
    /\ workers' = [workers EXCEPT ![w].pc = "recBytesReceived"]
    /\ UNCHANGED <<ExecFrame, totalRequests, byteCounters, errorsByType, statusCodes>>

\* RecordRequest: c.bytesReceived.Add(bytesReceived), with len(body) for a
\* response whose body was read and 0 for a network or body_read failure.
RecordRequest_bytesReceived(w) ==
    /\ workers[w].pc = "recBytesReceived"
    /\ bytesReceived' = bytesReceived
                           + (IF workers[w].kind \in {"network", "body_read"} THEN 0 ELSE BodyLen)
    /\ workers' = [workers EXCEPT ![w].pc = "recBytesSent"]
    /\ UNCHANGED <<ExecFrame, totalRequests, successRequests, totalErrors, bytesSent,
                   errorsByType, statusCodes>>

\* RecordRequest_bytesSent for a request of unknown length (ContentLength -1).
RecordRequest_bytesSent_unknownLength(w) ==
    /\ workers[w].pc = "recBytesSent"
    /\ bytesSent' = bytesSent + (IF workers[w].kind \in {"network", "body_read"} THEN 0 ELSE -1)
    /\ workers' = IF workers[w].kind \in {"network", "body_read"} THEN Done(w)
                  ELSE [workers EXCEPT ![w].pc = "recStatus"]
    /\ UNCHANGED <<ExecFrame, totalRequests, successRequests, totalErrors, bytesReceived,
                   errorsByType, statusCodes>>

\* RecordRequest: c.bytesSent.Add(bytesSent), with req.ContentLength or 0 alike;
\* executeRequest then returns (network, body_read) or goes on to
\* RecordStatusCode.
RecordRequest_bytesSent(w) ==
    /\ workers[w].pc = "recBytesSent"
    /\ bytesSent' = bytesSent
                       + (IF workers[w].kind \in {"network", "body_read"} THEN 0 ELSE ContentLength)
    /\ workers' = IF workers[w].kind \in {"network", "body_read"} THEN Done(w)
                  ELSE [workers EXCEPT ![w].pc = "recStatus"]
    /\ UNCHANGED <<ExecFrame, totalRequests, successRequests, totalErrors, bytesReceived,
                   errorsByType, statusCodes>>

\* RecordStatusCode: counter.Add(1) on statusCodes[code]
RecordStatusCode(w) ==
    /\ workers[w].pc = "recStatus"
    /\ statusCodes' = [statusCodes EXCEPT ![workers[w].code] = @ + 1]
    /\ workers' = Done(w)
    /\ UNCHANGED <<ExecFrame, totalRequests, successRequests, totalErrors, byteCounters, errorsByType>>

\* ---- Benchmark.generateRequests ------------------------------------------
GenFrame == <<cfg, offRun, tp, mainVars, wg, ctxVars, workers, rampVars, burstVars, monVars, snapVars,
              collector>>

\* Mutant of generateRequests_loop: the total_requests budget is not checked.
generateRequests_loop_noBudget ==
    /\ pcGen = "loop"
    /\ IF CtxDone(RunCtx)
       THEN pcGen' = "exited" /\ chanClosed' = TRUE
       ELSE pcGen' = (IF cfg.RateLimit > 0 THEN "wait" ELSE "send") /\ UNCHANGED chanClosed
    /\ UNCHANGED <<GenFrame, chanLen, requestCount>>

\* Outer select: ctx.Done() returns (deferred close); otherwise the default
\* branch checks the total_requests budget and moves on to the rate limiter.
generateRequests_loop ==
    /\ pcGen = "loop"
    /\ IF CtxDone(RunCtx) \/ (cfg.TotalRequests > 0 /\ requestCount >= cfg.TotalRequests)
       THEN pcGen' = "exited" /\ chanClosed' = TRUE
       ELSE pcGen' = (IF cfg.RateLimit > 0 THEN "wait" ELSE "send") /\ UNCHANGED chanClosed
    /\ UNCHANGED <<GenFrame, chanLen, requestCount>>

\* RateLimiter.Wait: returns on the next tick or on ctx.Done().
RateLimiter_Wait ==
    /\ pcGen = "wait"
    /\ pcGen' = "send"
    /\ UNCHANGED <<GenFrame, chanVars, requestCount>>

\* Mutant of generateRequests_send: the send does not wait for room in the channel.
generateRequests_send_noRoomCheck ==
    /\ pcGen = "send"
    /\ requestCount < TokenCap
    /\ chanLen' = chanLen + 1
    /\ requestCount' = requestCount + 1
    /\ pcGen' = "loop"
    /\ UNCHANGED <<GenFrame, chanClosed>>

\* Inner select, case requestChan <- struct{}{}: requestCount++
generateRequests_send ==
    /\ pcGen = "send"
    /\ chanLen < ChanCap
    /\ requestCount < TokenCap
    /\ chanLen' = chanLen + 1
    /\ requestCount' = requestCount + 1
    /\ pcGen' = "loop"
    /\ UNCHANGED <<GenFrame, chanClosed>>

\* Inner select, case <-ctx.Done(): return (deferred close).
generateRequests_cancel ==
    /\ pcGen = "send"
    /\ CtxDone(RunCtx)
    /\ pcGen' = "exited" /\ chanClosed' = TRUE
    /\ UNCHANGED <<GenFrame, chanLen, requestCount>>

\* ---- runRampUp: activation goroutine and gated workers -------------------
RampFrame == <<cfg, offRun, tp, mainVars, wg, ctxVars, chanVars, genVars, burstVars, monVars, snapVars,
               collector>>

\* (end - start) / steps, truncated as Go's integer division
concurrencyStep == (cfg.RampUp.EndConcurrency - cfg.RampUp.StartConcurrency) \div cfg.RampUp.Steps

\* for step < Steps && ctx.Err() == nil  (after one activation loop has ended)
RampLoop(s) == IF s < cfg.RampUp.Steps /\ ~CtxDone(WorkCtx) THEN "tick" ELSE "exited"

\* workerControl <- i, in the initial loop and in each step's loop; the loop
\* that has sent its last value falls through to the for condition.
rampActivate ==
    /\ pcRamp \in {"initial", "step"}
    /\ IF rampI < currentConcurrency
       THEN /\ wcLen < cfg.RampUp.EndConcurrency
            /\ wcLen' = wcLen + 1
            /\ rampI' = rampI + 1
            /\ UNCHANGED <<pcRamp, step>>
       ELSE /\ step' = IF pcRamp = "step" THEN step + 1 ELSE step
            /\ pcRamp' = RampLoop(step')
            /\ UNCHANGED <<wcLen, rampI>>
    /\ UNCHANGED <<RampFrame, workers, currentConcurrency>>

\* Mutant of rampTick: every tick releases one more worker, whatever the step size.
rampTick_oneWorkerPerTick ==
    /\ pcRamp = "tick"
    /\ currentConcurrency' = IF currentConcurrency + 1 > cfg.RampUp.EndConcurrency
                             THEN cfg.RampUp.EndConcurrency
                             ELSE currentConcurrency + 1
    /\ rampI' = currentConcurrency
    /\ pcRamp' = "step"
    /\ UNCHANGED <<RampFrame, workers, step, wcLen>>

\* <-ticker.C, then newConcurrency := min(current + concurrencyStep, End)
rampTick ==
    /\ pcRamp = "tick"
    /\ currentConcurrency' = IF currentConcurrency + concurrencyStep > cfg.RampUp.EndConcurrency
                             THEN cfg.RampUp.EndConcurrency
                             ELSE currentConcurrency + concurrencyStep
    /\ rampI' = currentConcurrency
    /\ pcRamp' = "step"
    /\ UNCHANGED <<RampFrame, workers, step, wcLen>>

\* A pre-spawned worker receives from workerControl and enters Benchmark.worker.
rampWorkerActivated(w) ==
    /\ workers[w].pc = "gated"
    /\ wcLen > 0
    /\ wcLen' = wcLen - 1
    /\ workers' = [workers EXCEPT ![w].pc = "idle"]
    /\ UNCHANGED <<RampFrame, pcRamp, currentConcurrency, rampI, step>>

\* ---- runBurst: burst controller goroutine --------------------------------
BurstFrame == <<cfg, offRun, tp, mainVars, ctxVars, chanVars, genVars, rampVars, monVars, snapVars,
                collector>>

BurstSlot(g, i) == cfg.BurstMode.BaseConcurrency + (g - 1) * BurstExtra + i + 1

\* select case <-ctx.Done(): return
burstCtxDone ==
    /\ pcBurst = "select" /\ CtxDone(WorkCtx)
    /\ pcBurst' = "exited"
    /\ UNCHANGED <<BurstFrame, wg, workers, burstGen, spawnI, burstExpired>>

\* select case <-ticker.C: burstCtx := WithTimeout(ctx, BurstDuration)
burstTick ==
    /\ pcBurst = "select"
    /\ burstGen < MaxBursts
    /\ burstGen' = burstGen + 1
    /\ burstExpired' = FALSE
    /\ spawnI' = 0
    /\ pcBurst' = "spawn"
    /\ UNCHANGED <<BurstFrame, wg, workers>>

\* One iteration of the spawn loop: wg.Add(1); go worker(burstCtx, ...); when
\* the loop is over the controller blocks on <-burstCtx.Done().
burstSpawn ==
    /\ pcBurst = "spawn"
    /\ IF spawnI < BurstExtra
       THEN /\ wg' = wg + 1
            /\ workers' = [workers EXCEPT ![BurstSlot(burstGen, spawnI)] =
                                              IdleWorker(BurstCtx(burstGen))]
            /\ spawnI' = spawnI + 1
            /\ UNCHANGED pcBurst
       ELSE /\ pcBurst' = "wait"
            /\ UNCHANGED <<wg, workers, spawnI>>
    /\ UNCHANGED <<BurstFrame, burstGen, burstExpired>>

\* The BurstDuration timer of the current burstCtx fires.
burstTimeout ==
    /\ pcBurst \in {"spawn", "wait"}
    /\ ~burstExpired
    /\ burstExpired' = TRUE
    /\ UNCHANGED <<BurstFrame, wg, workers, pcBurst, burstGen, spawnI>>

\* <-burstCtx.Done(); burstCancel(); back to the select.
burstEnd ==
    /\ pcBurst = "wait" /\ CtxDone(BurstCtx(burstGen))
    /\ burstExpired' = TRUE
    /\ pcBurst' = "select"
    /\ UNCHANGED <<BurstFrame, wg, workers, burstGen, spawnI>>

\* ---- Collector.Snapshot (called by generateResults and realtimeMonitor) ---
SnapFrame == <<cfg, offRun, mainVars, wg, ctxVars, workers, chanVars, genVars, rampVars, burstVars,
               monVars, collector>>

\* TotalRequests: c.totalRequests.Load()
Snapshot_total(s) ==
    /\ snapPc[s] = "total"
    /\ snap' = [snap EXCEPT ![s].TotalRequests = totalRequests]
    /\ snapPc' = [snapPc EXCEPT ![s] = "success"]
    /\ UNCHANGED <<SnapFrame, tp>>

\* SuccessRequests: c.successRequests.Load()
Snapshot_success(s) ==
    /\ snapPc[s] = "success"
    /\ snap' = [snap EXCEPT ![s].SuccessRequests = successRequests]
    /\ snapPc' = [snapPc EXCEPT ![s] = "errors"]
    /\ UNCHANGED <<SnapFrame, tp>>

\* TotalErrors: c.totalErrors.Load()
Snapshot_errors(s) ==
    /\ snapPc[s] = "errors"
    /\ snap' = [snap EXCEPT ![s].TotalErrors = totalErrors]
    /\ snapPc' = [snapPc EXCEPT ![s] = "bytesReceived"]
    /\ UNCHANGED <<SnapFrame, tp>>

\* BytesReceived: c.bytesReceived.Load()
Snapshot_bytesReceived(s) ==
    /\ snapPc[s] = "bytesReceived"
    /\ snap' = [snap EXCEPT ![s].BytesReceived = bytesReceived]
    /\ snapPc' = [snapPc EXCEPT ![s] = "bytesSent"]
    /\ UNCHANGED <<SnapFrame, tp>>

\* BytesSent: c.bytesSent.Load()
Snapshot_bytesSent(s) ==
    /\ snapPc[s] = "bytesSent"
    /\ snap' = [snap EXCEPT ![s].BytesSent = bytesSent]
    /\ snapPc' = [snapPc EXCEPT ![s] = "errorsByType"]
    /\ UNCHANGED <<SnapFrame, tp>>

\* Copy of errorsByType under errorsMu.RLock
Snapshot_errorsByType(s) ==
    /\ snapPc[s] = "errorsByType"
    /\ snap' = [snap EXCEPT ![s].ErrorsByType = errorsByType]
    /\ snapPc' = [snapPc EXCEPT ![s] = "statusCodes"]
    /\ UNCHANGED <<SnapFrame, tp>>

\* Copy of statusCodes under statusMu.RLock, then recordTimePoint's test: with
\* less than a second since c.lastSnapshot (read without a lock) the snapshot
\* is returned, otherwise recordTimePoint goes on to append a point.
Snapshot_statusCodes(s) ==
    /\ snapPc[s] = "statusCodes"
    /\ snap' = [snap EXCEPT ![s].StatusCodes = statusCodes]
    /\ IF now - lastSnapshot < MinPointGap
       THEN snapPc' = [snapPc EXCEPT ![s] = "returned"] /\ UNCHANGED tp
       ELSE /\ snapPc' = [snapPc EXCEPT ![s] = "append"]
            /\ tp' = [tp EXCEPT ![s] = [now |-> now, duration |-> now - lastSnapshot]]
    /\ UNCHANGED SnapFrame

\* ---- realtimeMonitor -----------------------------------------------------
MonFrame == <<cfg, offRun, tp, mainVars, wg, ctxVars, workers, chanVars, genVars, rampVars, burstVars,
              collector>>

\* lastSnapshot := b.stats.Snapshot()
realtimeMonitor_start ==
    /\ pcMon = "start"
    /\ snapPc' = [snapPc EXCEPT !["monitor"] = "total"]
    /\ pcMon' = "snapshot"
    /\ UNCHANGED <<MonFrame, monTicks, snap>>

\* The Snapshot call returned: print the line, go back to the select.
realtimeMonitor_print ==
    /\ pcMon = "snapshot" /\ snapPc["monitor"] = "returned"
    /\ snapPc' = [snapPc EXCEPT !["monitor"] = "idle"]
    /\ snap' = [snap EXCEPT !["monitor"] = NoSnapshot]
    /\ pcMon' = "select"
    /\ UNCHANGED <<MonFrame, monTicks>>

\* select case <-ticker.C: currentSnapshot := b.stats.Snapshot()
realtimeMonitor_tick ==
    /\ pcMon = "select"
    /\ monTicks < MaxMonTicks
    /\ monTicks' = monTicks + 1
    /\ snapPc' = [snapPc EXCEPT !["monitor"] = "total"]
    /\ pcMon' = "snapshot"
    /\ UNCHANGED <<MonFrame, snap>>

\* select case <-ctx.Done(): return
realtimeMonitor_ctxDone ==
    /\ pcMon = "select" /\ CtxDone(RunCtx)
    /\ pcMon' = "exited"
    /\ UNCHANGED <<MonFrame, monTicks, snapVars>>

\* ---- the end of runConstant / runRampUp / runBurst ------------------------
MainFrame == <<cfg, offRun, tp, wg, workers, chanVars, genVars, rampVars, burstVars, monVars, collector>>

\* wg.Wait() returns when the counter is zero; generateResults calls Snapshot.
wgWait ==
    /\ pcMain = "wait" /\ wg = 0
    /\ pcMain' = "results"
    /\ snapPc' = [snapPc EXCEPT !["main"] = "total"]
    /\ UNCHANGED <<MainFrame, ctxVars, results, err, snap>>

\* generateResults builds Results from the snapshot; Run returns (results, nil)
\* and its deferred cancel functions run.
generateResults ==
    /\ pcMain = "results" /\ snapPc["main"] = "returned"
    /\ results' = [set |-> TRUE,
                   TotalRequests |-> snap["main"].TotalRequests,
                   SuccessRequests |-> snap["main"].SuccessRequests,
                   FailedRequests |-> snap["main"].TotalErrors,
                   BytesReceived |-> snap["main"].BytesReceived,
                   BytesSent |-> snap["main"].BytesSent,
                   ErrorsByType |-> snap["main"].ErrorsByType,
                   StatusCodes |-> snap["main"].StatusCodes]
    /\ err' = "nil"
    /\ returned' = TRUE
    /\ pcMain' = "done"
    /\ UNCHANGED <<MainFrame, cancelled, deadlineFired, snapVars>>

\* ---- the environment: cancellation of Run's context, the duration timer ---
EnvFrame == <<cfg, offRun, tp, mainVars, wg, workers, chanVars, genVars, rampVars, burstVars, monVars,
              snapVars, collector>>

\* The caller's context is cancelled (signal, or the caller's own deadline).
Cancel ==
    /\ ~cancelled /\ ~returned
    /\ cancelled' = TRUE
    /\ UNCHANGED <<EnvFrame, deadlineFired, returned>>

\* context.WithTimeout(ctx, Load.Duration) of runConstant expires.
Deadline ==
    /\ pcMain \in {"wait", "results"} /\ Pattern = "constant" /\ cfg.Duration > 0
    /\ ~deadlineFired
    /\ deadlineFired' = TRUE
    /\ UNCHANGED <<EnvFrame, cancelled, returned>>

\* ---- specification --------------------------------------------------------
\* A step of one of the run's goroutines.
TaskStep ==
    \/ runConstant
    \/ runRampUp
    \/ runBurst
    \/ \E w \in Slots : workerCtxDone(w)
    \/ \E w \in Slots : workerChanClosed(w)
    \/ \E w \in Slots : createRequest(w)
    \/ \E w \in Slots : clientDo(w)
    \/ \E w \in Slots : RecordError_total(w)
    \/ \E w \in Slots : RecordError_kind(w)
    \/ \E w \in Slots : RecordRequest_total(w)
    \/ \E w \in Slots : RecordRequest_outcome(w)
    \/ \E w \in Slots : RecordRequest_bytesReceived(w)
    \/ \E w \in Slots : RecordRequest_bytesSent(w)
    \/ \E w \in Slots : RecordStatusCode(w)
    \/ generateRequests_loop
    \/ RateLimiter_Wait
    \/ generateRequests_send
    \/ generateRequests_cancel
    \/ rampActivate
    \/ rampTick
    \/ \E w \in Slots : rampWorkerActivated(w)
    \/ burstCtxDone
    \/ burstTick
    \/ burstSpawn
    \/ burstTimeout
    \/ burstEnd
    \/ \E s \in Snappers : Snapshot_total(s)
    \/ \E s \in Snappers : Snapshot_success(s)
    \/ \E s \in Snappers : Snapshot_errors(s)
    \/ \E s \in Snappers : Snapshot_bytesReceived(s)
    \/ \E s \in Snappers : Snapshot_bytesSent(s)
    \/ \E s \in Snappers : Snapshot_errorsByType(s)
    \/ \E s \in Snappers : Snapshot_statusCodes(s)
    \/ realtimeMonitor_start
    \/ realtimeMonitor_print
    \/ realtimeMonitor_tick
    \/ realtimeMonitor_ctxDone
    \/ wgWait
    \/ generateResults

Next == TaskStep \/ Cancel \/ Deadline

Spec == Init /\ [][Next]_vars

\* ---- derived notions used by the properties --------------------------------
Produced == requestCount
Consumed == requestCount - chanLen
Finished(pc) == pc \in {"off", "none", "exited"}
AllWorkersFinished == \A w \in Slots : Finished(workers[w].pc)
AllTasksFinished ==
    /\ AllWorkersFinished
    /\ Finished(pcGen) /\ Finished(pcRamp) /\ Finished(pcBurst) /\ Finished(pcMon)
Executing(w) == workers[w].pc \in {"do", "recErrTotal", "recErrKind", "recReqTotal",
                                   "recReqOutcome", "recBytesReceived", "recBytesSent",
                                   "recStatus"}
RunReturned == pcMain = "done"
\* No request of the run has failed at any stage so far.
NoFailure ==
    /\ \A k \in Kinds : errorsByType[k] = 0
    /\ \A w \in Slots : workers[w].kind = "none"
Sum(f) == f[200] + f[500]

\* ---- properties --------------------------------------------------------------

\* C1: every snapshot returned by Collector.Snapshot, to the monitor or to
\* generateResults, satisfies SuccessRequests + TotalErrors = TotalRequests.
C1_SnapshotBalanced ==
    \A s \in Snappers :
        snapPc[s] = "returned" =>
            snap[s].SuccessRequests + snap[s].TotalErrors = snap[s].TotalRequests

\* C2: after a total-bounded run whose N executed requests all failed
\* validation, Results report success = 0, errors = N, validation errors = N
\* and N recorded status codes: each failing request counts as one error.
C2_ValidationFailuresCountedOnce ==
    (/\ RunReturned
     /\ cfg.TotalRequests > 0
     /\ Consumed = cfg.TotalRequests
     /\ results.ErrorsByType["validation"] = cfg.TotalRequests)
    => /\ results.SuccessRequests = 0
       /\ results.FailedRequests = cfg.TotalRequests
       /\ Sum(results.StatusCodes) = cfg.TotalRequests

\* C3: a constant run with total_requests = N > 0 that was neither cancelled
\* nor cut by its deadline has produced exactly N tokens, all of them consumed,
\* and returns Results with TotalRequests = N.
C3_ConstantRunCountsAllTokens ==
    (/\ RunReturned
     /\ Pattern = "constant" /\ cfg.TotalRequests > 0
     /\ ~cancelled /\ ~deadlineFired)
    => /\ Produced = cfg.TotalRequests
       /\ Consumed = cfg.TotalRequests
       /\ results.TotalRequests = cfg.TotalRequests

\* C4: when no request of the run failed (every response carried an allowed
\* status and passed validation) and at least one request was issued, Results
\* satisfy SuccessRequests = TotalRequests > 0, FailedRequests = 0 and the count
\* of the status code equals TotalRequests.
C4_AllSuccessResults ==
    (RunReturned /\ NoFailure /\ Consumed > 0)
    => /\ results.TotalRequests > 0
       /\ results.SuccessRequests = results.TotalRequests
       /\ results.FailedRequests = 0
       /\ results.StatusCodes[200] = results.TotalRequests
       /\ results.StatusCodes[500] = 0

\* C4 witness: a run that issued MaxTotal requests, all successful, has returned.
C4_Witness ==
    /\ RunReturned /\ NoFailure
    /\ Consumed = MaxTotal
    /\ results.SuccessRequests = MaxTotal

\* C5: while a run bounded by load.duration alone is under way, under every
\* load pattern, the duration timer on its work context is pending or has
\* fired (so the run ends without external cancellation).
C5_DurationArmedInEveryPattern ==
    (pcMain = "wait" /\ cfg.Duration > 0 /\ cfg.TotalRequests = 0 /\ ~cancelled)
    => (deadlineFired \/ ENABLED Deadline)

\* C6: in a constant run with both duration and total_requests = N set: never
\* more than N tokens are produced; until Run returns some goroutine of the run
\* can always take a step without the deadline firing or a cancellation (so a
\* run whose N tokens are consumed returns without waiting for the deadline);
\* Results report TotalRequests <= N; and once nothing more can happen Run has
\* returned and the generator has stopped.
C6_WhicheverBoundFiresFirst ==
    (Pattern = "constant" /\ cfg.Duration > 0 /\ cfg.TotalRequests > 0 /\ pcMain # "start")
    => /\ Produced <= cfg.TotalRequests
       /\ (RunReturned \/ ENABLED TaskStep)
       /\ (RunReturned => results.TotalRequests <= cfg.TotalRequests)
       /\ (~ENABLED Next => (RunReturned /\ pcGen = "exited" /\ chanClosed))

\* C6 witness: both bounds set, all N tokens consumed, Run returned with
\* TotalRequests = N and the deadline has not fired.
C6_Witness ==
    /\ Pattern = "constant" /\ cfg.Duration > 0 /\ cfg.TotalRequests = MaxTotal
    /\ RunReturned /\ ~deadlineFired /\ ~cancelled
    /\ results.TotalRequests = cfg.TotalRequests

\* C7: once the run context is cancelled, as long as Run has not returned or
\* some task has not exited, some step is still possible (so every task exits
\* and Run returns).
C7_CancelEndsEveryTask ==
    cancelled => ((RunReturned /\ AllTasksFinished) \/ ENABLED Next)

\* C8: from the moment generateResults takes the final snapshot, no worker is
\* executing a request or recording an outcome.
C8_NoWorkerActiveAtResults ==
    pcMain \in {"results", "done"} => \A w \in Slots : ~Executing(w)

\* C9: no request in flight is aborted by the cancellation or the deadline of
\* the run context.
C9_InFlightNotAborted ==
    \A w \in Slots : ~workers[w].aborted

\* C10: when a run that was cancelled or cut by its deadline returns, Results
\* are set, the error is nil and the Results counters equal the collector's
\* counters at that moment.
C10_PartialResultsMatchCollector ==
    [][(pcMain' = "done" /\ pcMain # "done" /\ (cancelled \/ deadlineFired))
       => /\ results'.set /\ err' = "nil"
          /\ results'.TotalRequests = totalRequests'
          /\ results'.SuccessRequests = successRequests'
          /\ results'.FailedRequests = totalErrors']_vars

\* ---- load shapes: ramp-up and burst ------------------------------------------
\* Workers that have passed the ramp-up activation gate (<-workerControl returned).
Activated == Cardinality({w \in Slots : workers[w].pc \notin {"none", "gated"}})
\* Worker goroutines that are running Benchmark.worker and have not returned.
ActiveWorkers == Cardinality({w \in Slots : workers[w].pc \notin {"none", "gated", "exited"}})
\* Ticks of the ramp-up ticker consumed so far by the activation goroutine.
RampTicks == step + (IF pcRamp = "step" THEN 1 ELSE 0)

\* C11: in a ramp-up run that is not cancelled, once the activation goroutine
\* has taken its S-th tick and finished that step, the number of workers it has
\* released equals end_concurrency, whatever (start, end, S) are.
C11_RampUpReachesEnd ==
    (Pattern = "ramp_up" /\ ~cancelled /\ step = cfg.RampUp.Steps /\ pcRamp = "exited")
        => (currentConcurrency = cfg.RampUp.EndConcurrency /\ rampI = cfg.RampUp.EndConcurrency)

C12_State ==
    Pattern = "ramp_up" =>
        /\ Activated = rampI - wcLen
        /\ rampI <= currentConcurrency
        /\ currentConcurrency <= cfg.RampUp.EndConcurrency
        /\ (pcMain # "start" =>
               currentConcurrency = cfg.RampUp.StartConcurrency
                   + RampTicks * ((cfg.RampUp.EndConcurrency - cfg.RampUp.StartConcurrency)
                                      \div cfg.RampUp.Steps))
        /\ (pcRamp \in {"tick", "exited"} => rampI = currentConcurrency)

C12_Step ==
    Pattern = "ramp_up" =>
        /\ Activated' >= Activated
        /\ \A w \in Slots :
              (workers[w].pc \notin {"none", "gated", "exited"} /\ workers'[w].pc = "exited")
                  => (CtxDone(WorkCtx) \/ (chanClosed /\ chanLen = 0))
        /\ \A w \in Slots : workers[w].pc \notin {"none", "gated"} => workers'[w].pc # "gated"

\* C12: in a ramp-up run the activation goroutine releases start workers at
\* t=0 and (end - start) \div S more at each tick; the workers past the gate
\* are exactly the released signals that were received, their number never
\* decreases and never exceeds end, and a worker past the gate returns only
\* when its context is done or the request channel is closed and drained.
C12_RampUpActivation == []C12_State /\ [][C12_Step]_vars

\* C12 witness: a ramp-up from 0 to MaxConc in one step has taken its tick and
\* all MaxConc workers are past the gate.
C12_Witness ==
    /\ Pattern = "ramp_up" /\ cfg.RampUp.StartConcurrency = 0
    /\ cfg.RampUp.EndConcurrency = MaxConc /\ cfg.RampUp.Steps = 1
    /\ step = 1 /\ Activated = MaxConc

\* C13: a ramp-up run with start = end = c has the termination conditions of a
\* constant run with concurrency c: all c workers are released at t=0 without
\* a tick, and when load.duration is set its deadline is armed while the run
\* waits for its workers.
C13_RampUpFlatLikeConstant ==
    (Pattern = "ramp_up" /\ cfg.RampUp.StartConcurrency = cfg.RampUp.EndConcurrency
       /\ pcMain = "wait")
        => /\ currentConcurrency = cfg.RampUp.EndConcurrency
           /\ ((cfg.Duration > 0 /\ ~cancelled) => (deadlineFired \/ ENABLED Deadline))

\* C14: in a burst run, when a burst-interval tick starts a new burst no
\* worker of an earlier burst is still running: the active workers are base
\* workers only.
C14_BurstWorkersGoneBeforeNextBurst ==
    [][(Pattern = "burst" /\ pcBurst = "select" /\ pcBurst' = "spawn")
          => \A w \in Slots : workers[w].ctx.name # "burstCtx"]_vars

\* C15: in a burst run the number of active worker goroutines (base workers
\* and burst workers that have not returned) never exceeds burst_concurrency.
C15_BurstsDoNotOverlap ==
    Pattern = "burst" => ActiveWorkers <= cfg.BurstMode.BurstConcurrency

\* ---- per-request error handling ----------------------------------------------
SumKinds(f) == f["request_creation"] + f["network"] + f["body_read"] + f["validation"]

C19_State ==
    (\A w \in Slots : ~Executing(w)) => SumKinds(errorsByType) + successRequests = Consumed

C19_Step ==
    /\ \A w \in Slots :
          (workers[w].pc = "idle" /\ workers'[w].pc = "recErrTotal")
              => workers'[w].kind \in {"request_creation", "network"}
    /\ \A w \in Slots :
          (workers[w].pc = "do" /\ workers'[w].pc = "recErrTotal")
              => /\ workers'[w].kind \in {"network", "body_read", "validation"}
                 /\ (workers'[w].kind = "validation" <=> workers'[w].code \in Codes \ AllowedStatus)
    /\ \A w \in Slots :
          (workers[w].pc = "do" /\ workers'[w].pc = "recReqTotal")
              => (workers'[w].kind = "none" /\ workers'[w].code \in AllowedStatus)
    /\ errorsByType' # errorsByType
          => \E w \in Slots :
                /\ workers[w].pc = "recErrKind"
                /\ workers[w].kind \in Kinds
                /\ errorsByType' = [errorsByType EXCEPT ![workers[w].kind] = @ + 1]

\* C19: a request that fails is counted under exactly one kind, the kind of
\* the stage that failed (request_creation or network before the request is
\* in flight; network, body_read or validation afterwards, validation exactly
\* for a response the validator rejects); a successful request adds to no
\* kind, so whenever no worker is executing the per-kind counters and the
\* success counter add up to the tokens consumed.
C19_OneKindPerFailure == []C19_State /\ [][C19_Step]_vars

\* C19 witness: a returned run of MaxTotal = 2 requests, one that failed at
\* request creation and one that the validator rejected.
C19_Witness ==
    /\ RunReturned /\ AllWorkersFinished /\ Consumed = MaxTotal
    /\ errorsByType["request_creation"] = 1 /\ errorsByType["validation"] = 1
    /\ successRequests = 0

\* C20: a worker that is executing or recording a request never returns from
\* there (it goes back to its select), and a run bounded by total_requests = N
\* that is neither cancelled nor cut by its deadline keeps making progress
\* until Run returns, with all N tokens consumed, whatever requests failed.
C20_FailuresDoNotStopWorkers ==
    /\ \A w \in Slots : workers[w].pc \in {"recErrKind", "recBytesSent", "recStatus"}
                           => ENABLED (RecordError_kind(w) \/ RecordRequest_bytesSent(w)
                                         \/ RecordStatusCode(w))
    /\ (cfg.TotalRequests > 0 /\ ~cancelled /\ ~deadlineFired /\ pcMain # "start")
          => /\ RunReturned \/ ENABLED TaskStep
             /\ RunReturned => Consumed = cfg.TotalRequests

\* ---- RateLimiter and Benchmark.Close, with a clock ----------------------------
\* Everything of the engine apart from the context passed to Wait.
runVars == <<cfg, mainVars, wg, deadlineFired, returned, workers, chanVars, genVars, rampVars,
             burstVars, monVars, snapVars, collector>>
LimFrame == <<runVars, valVars, pureVars, keyVars, seriesVars, tp>>

\* One time unit passes.  A ticker that is due and not stopped puts a tick in
\* its channel, which holds one tick: a tick that finds the channel full is
\* dropped.  The ticker keeps its schedule whether or not the ticks are taken.
timePasses ==
    /\ now < MaxTime
    /\ now' = now + 1
    /\ IF ~tickerStopped /\ now' = tickerNext
       THEN tickerC' = 1 /\ tickerNext' = tickerNext + TickInterval
       ELSE UNCHANGED <<tickerC, tickerNext>>
    /\ UNCHANGED <<LimFrame, cancelled, tickerStopped, pcWait, returnTimes, closed>>

\* generateRequests calls b.rateLimiter.Wait(ctx).
Wait_call ==
    /\ pcWait = "idle"
    /\ Len(returnTimes) < MaxWaits
    /\ pcWait' = "select"
    /\ UNCHANGED <<LimFrame, cancelled, now, tickerC, tickerNext, tickerStopped, returnTimes,
                   closed>>

\* Wait, select case <-r.ticker.C: return
Wait_tick ==
    /\ pcWait = "select"
    /\ tickerC = 1
    /\ tickerC' = 0
    /\ returnTimes' = Append(returnTimes, now)
    /\ pcWait' = "idle"
    /\ UNCHANGED <<LimFrame, cancelled, now, tickerNext, tickerStopped, closed>>

\* Wait, select case <-ctx.Done(): return
Wait_ctxDone ==
    /\ pcWait = "select"
    /\ cancelled
    /\ pcWait' = "idle"
    /\ UNCHANGED <<LimFrame, cancelled, now, tickerC, tickerNext, tickerStopped, returnTimes,
                   closed>>

\* RateLimiter.Stop: r.ticker.Stop(); no tick is sent afterwards.
Stop ==
    /\ ~tickerStopped
    /\ tickerStopped' = TRUE
    /\ UNCHANGED <<LimFrame, cancelled, now, tickerC, tickerNext, pcWait, returnTimes, closed>>

\* Benchmark.Close: b.running.Store(false); return nil
Close ==
    /\ ~closed
    /\ closed' = TRUE
    /\ UNCHANGED <<LimFrame, cancelled, now, tickerC, tickerNext, tickerStopped, pcWait,
                   returnTimes>>

\* Benchmark.New with load.rate_limit > 0 has built the limiter.
LimInit == RunInit({c \in Configs : c.RateLimit > 0 /\ c.Concurrency = 1}) /\ NewRateLimiter
              /\ ValidatorIdle /\ PureIdle /\ NewCollector

LimNext == timePasses \/ Wait_call \/ Wait_tick \/ Wait_ctxDone \/ Stop \/ Close \/ Cancel

LimSpec == LimInit /\ [][LimNext]_vars

\* C16: with an uncancelled context, any two successive returns of
\* RateLimiter.Wait are at least one interval apart.
C16_WaitReturnsOneIntervalApart ==
    ~cancelled =>
        \A i \in 1..Len(returnTimes) :
            i > 1 => returnTimes[i] - returnTimes[i - 1] >= TickInterval

\* C17: once Benchmark.Close has returned, the limiter's ticker is stopped.
C17_CloseStopsTicker == closed => tickerStopped

\* ---- Validator ------------------------------------------------------------------
\* Bodies are byte strings over two letters; patterns are "^a" and "(", which
\* regexp.Compile rejects.
Letters == {"a", "b"}
Bodies == UNION {[1..n -> Letters] : n \in 0..MaxBodyLen}
ValidationConfigs ==
    [StatusCodes : {{}, AllowedStatus},
     HeaderValidation : {{}, {<<"X-Check", "a">>}},
     MinSize : {0, MaxBodyLen}, MaxSize : 0..1,
     Contains : {<<>>, << <<"a">> >>}, NotContains : {<<>>, << <<"b">> >>},
     ContentPatterns : {<<>>, <<"^a">>, <<"(">>},
     ResponseTimeMax : 0..MaxLatency]
ValInputs ==
    [cfg : ValidationConfigs,
     resp : [StatusCode : Codes, Header : [HeaderKeys -> {"", "a"}]],
     body : Bodies, latency : 1..MaxLatency]

\* bytes.Contains(body, content)
bytesContains(body, content) ==
    \E i \in 0..(Len(body) - Len(content)) : SubSeq(body, i + 1, i + Len(content)) = content
\* regexp.Compile(pattern) succeeds
Compiles(pattern) == pattern # "("
\* pattern.Match(body) of a compiled pattern
Match(pattern, body) == pattern = "^a" => (Len(body) > 0 /\ body[1] = "a")

\* validator.New: patterns that do not compile are left out.
Validator_New(vc) ==
    [config |-> vc, contentPatterns |-> SelectSeq(vc.ContentPatterns, Compiles),
     statusCodeMap |-> vc.StatusCodes]

\* Mutant of Validator_validateStatusCode: an empty allowed set rejects every
\* status.
Validator_validateStatusCode_emptyRejects(v, code) ==
    IF code \notin v.statusCodeMap THEN "status_code" ELSE "nil"

Validator_validateStatusCode(v, code) ==
    IF v.statusCodeMap = {} THEN "nil"
    ELSE IF code \notin v.statusCodeMap THEN "status_code"
    ELSE "nil"

validateHeaders(v, headers) ==
    IF \E kv \in v.config.HeaderValidation : headers[kv[1]] # kv[2] THEN "header" ELSE "nil"

\* Mutant of validateBody: the content checks run before the size checks.
validateBody_contentFirst(v, body) ==
    IF \E i \in 1..Len(v.config.Contains) : ~bytesContains(body, v.config.Contains[i])
    THEN "body_content"
    ELSE IF \E i \in 1..Len(v.config.NotContains) : bytesContains(body, v.config.NotContains[i])
    THEN "body_content"
    ELSE IF v.config.MinSize > 0 /\ Len(body) < v.config.MinSize THEN "body_size"
    ELSE IF v.config.MaxSize > 0 /\ Len(body) > v.config.MaxSize THEN "body_size"
    ELSE IF \E i \in 1..Len(v.contentPatterns) : ~Match(v.contentPatterns[i], body)
    THEN "content_pattern"
    ELSE "nil"

validateBody(v, body) ==
    IF v.config.MinSize > 0 /\ Len(body) < v.config.MinSize THEN "body_size"
    ELSE IF v.config.MaxSize > 0 /\ Len(body) > v.config.MaxSize THEN "body_size"
    ELSE IF \E i \in 1..Len(v.config.Contains) : ~bytesContains(body, v.config.Contains[i])
    THEN "body_content"
    ELSE IF \E i \in 1..Len(v.config.NotContains) : bytesContains(body, v.config.NotContains[i])
    THEN "body_content"
    ELSE IF \E i \in 1..Len(v.contentPatterns) : ~Match(v.contentPatterns[i], body)
    THEN "content_pattern"
    ELSE "nil"

Validate(v, resp, body) ==
    IF Validator_validateStatusCode(v, resp.StatusCode) # "nil"
    THEN Validator_validateStatusCode(v, resp.StatusCode)
    ELSE IF validateHeaders(v, resp.Header) # "nil" THEN validateHeaders(v, resp.Header)
    ELSE validateBody(v, body)

ValidateWithLatency(v, resp, body, latency) ==
    IF Validate(v, resp, body) # "nil" THEN Validate(v, resp, body)
    ELSE IF v.config.ResponseTimeMax > 0 /\ latency > v.config.ResponseTimeMax
    THEN "response_time"
    ELSE "nil"

ValFrame == <<runVars, cancelled, limVars, valIn, pureVars, keyVars, seriesVars, tp>>

\* A caller validates a response with Validate.
callValidate ==
    /\ valCall = "none"
    /\ valCall' = "Validate"
    /\ valErr' = Validate(Validator_New(valIn.cfg), valIn.resp, valIn.body)
    /\ UNCHANGED ValFrame

\* A caller validates a response and its latency with ValidateWithLatency.
callValidateWithLatency ==
    /\ valCall = "none"
    /\ valCall' = "ValidateWithLatency"
    /\ valErr' = ValidateWithLatency(Validator_New(valIn.cfg), valIn.resp, valIn.body,
                                     valIn.latency)
    /\ UNCHANGED ValFrame

\* A validator built from any configuration is about to check any response.
ValInit ==
    /\ RunInit({CHOOSE c \in Configs : c.LoadPattern = "constant"}) /\ NewRateLimiter
    /\ valIn \in ValInputs /\ valCall = "none" /\ valErr = "unset"
    /\ PureIdle /\ NewCollector

\* executeRequest validates the response it read, after measuring the latency:
\* validationErr := b.validator.Validate(resp, body).
executeRequest_Validate ==
    /\ valCall = "none"
    /\ valCall' = "executeRequest"
    /\ valErr' = Validate(Validator_New(valIn.cfg), valIn.resp, valIn.body)
    /\ UNCHANGED ValFrame

ValNext == callValidate \/ callValidateWithLatency \/ executeRequest_Validate

ValSpec == ValInit /\ [][ValNext]_vars

\* The checks in the documented order, each stated on the configuration and
\* the response: TRUE when the response fails the check.
CheckKinds == <<"status_code", "header", "body_size", "body_content", "body_content",
                "content_pattern", "response_time">>
CheckFails ==
    LET c == valIn.cfg
        b == valIn.body
    IN  << c.StatusCodes # {} /\ valIn.resp.StatusCode \notin c.StatusCodes,
           \E kv \in c.HeaderValidation : valIn.resp.Header[kv[1]] # kv[2],
           (c.MinSize > 0 /\ Len(b) < c.MinSize) \/ (c.MaxSize > 0 /\ Len(b) > c.MaxSize),
           \E i \in 1..Len(c.Contains) : ~bytesContains(b, c.Contains[i]),
           \E i \in 1..Len(c.NotContains) : bytesContains(b, c.NotContains[i]),
           \E i \in 1..Len(c.ContentPatterns) :
               Compiles(c.ContentPatterns[i]) /\ ~Match(c.ContentPatterns[i], b),
           c.ResponseTimeMax > 0 /\ valIn.latency > c.ResponseTimeMax >>
\* The kind of the earliest failing check among the first n, "nil" if none fails.
EarliestFailing(n) ==
    IF \E i \in 1..n : CheckFails[i]
    THEN CheckKinds[CHOOSE i \in 1..n : CheckFails[i] /\ \A j \in 1..(i - 1) : ~CheckFails[j]]
    ELSE "nil"

\* C18: Validate reports the kind of the earliest failing check in the order
\* status, headers, body size, required substrings, forbidden substrings,
\* patterns, and nil when none fails; ValidateWithLatency does the same with the
\* latency check last.
C18_FirstFailingCheckReported ==
    /\ valCall = "Validate" => valErr = EarliestFailing(6)
    /\ valCall = "ValidateWithLatency" => valErr = EarliestFailing(7)

\* C18 witness: a response that fails the header, body-size, pattern and
\* latency checks but not the status check was reported as a header failure.
C18_Witness ==
    /\ valCall = "ValidateWithLatency"
    /\ ~CheckFails[1] /\ CheckFails[2] /\ CheckFails[3] /\ CheckFails[6] /\ CheckFails[7]
    /\ valErr = "header"

\* ---- status codes, snapshots under load, the token channel -------------------
\* Requests recorded so far for which a response (its status line and headers)
\* was received: the successes and the body_read and validation failures.
ResponsesReceived == successRequests + errorsByType["body_read"] + errorsByType["validation"]

\* C21: whenever no worker is executing, the per-status counters add up to the
\* number of requests for which a response was received: each such request
\* recorded its status code exactly once.
C21_StatusRecordedForEveryResponse ==
    (\A w \in Slots : ~Executing(w)) => Sum(statusCodes) = ResponsesReceived

\* C22: in every snapshot returned, the per-status counts add up to at most
\* TotalRequests.
C22_SnapshotStatusWithinTotal ==
    \A s \in Snappers : snapPc[s] = "returned" =>
        Sum(snap[s].StatusCodes) <= snap[s].TotalRequests

\* C23: no snapshot returned shows a request counted in TotalRequests whose
\* outcome is in neither SuccessRequests nor TotalErrors.
C23_SnapshotSeesNoPartialOutcome ==
    \A s \in Snappers : snapPc[s] = "returned" =>
        snap[s].TotalRequests <= snap[s].SuccessRequests + snap[s].TotalErrors

C30_State ==
    /\ chanClosed <=> pcGen = "exited"
    /\ cfg.TotalRequests > 0 => requestCount <= cfg.TotalRequests
    /\ chanLen <= ChanCap
    /\ chanLen >= 0 /\ chanLen <= requestCount

C30_Step ==
    /\ chanClosed => (chanClosed' /\ requestCount' = requestCount /\ chanLen' <= chanLen)
    /\ (~chanClosed /\ chanClosed') => (pcGen \in {"loop", "send"} /\ pcGen' = "exited")
    /\ requestCount' # requestCount =>
          (pcGen = "send" /\ requestCount' = requestCount + 1 /\ chanLen' = chanLen + 1)

\* C30: the token channel is closed exactly when the generator has terminated,
\* by the generator's own last step and never again; no token is produced
\* after the close; the tokens produced never exceed total_requests when it
\* is set; the tokens buffered never exceed the channel's capacity, the
\* largest worker count of the load pattern.
C30_GeneratorOwnsChannel == []C30_State /\ [][C30_Step]_vars

\* C30 witness: a run with total_requests = MaxTotal and one worker, whose
\* generator has produced all its tokens and closed the channel with a token
\* still buffered.
C30_Witness ==
    /\ cfg.TotalRequests = MaxTotal /\ ChanCap = 1
    /\ requestCount = MaxTotal /\ chanClosed /\ chanLen = 1 /\ ~cancelled /\ ~deadlineFired

\* ---------------------------------------------------------------------------
\* Config.Validate
\* ---------------------------------------------------------------------------

\* The fields Config.Validate reads.  WorkerAddresses is the length of the
\* address list.
ValidateInputs ==
    [URL : {"", "http://h"},
     Concurrency : -1..MaxConc,
     Duration : -1..MaxDuration,
     TotalRequests : -1..MaxDuration,
     HTTP2Enabled : BOOLEAN, HTTP3Enabled : BOOLEAN,
     Enabled : BOOLEAN, WorkerMode : BOOLEAN, WorkerAddresses : 0..1]

\* Config.Validate with the budget test weakened: a zero duration together with
\* a zero total passes.
Config_Validate_zeroBudgetAccepted(c) ==
    IF c.URL = "" THEN "url"
    ELSE IF c.Concurrency <= 0 THEN "concurrency"
    ELSE IF c.Duration < 0 /\ c.TotalRequests < 0 THEN "budget"
    ELSE IF c.HTTP2Enabled /\ c.HTTP3Enabled THEN "protocol"
    ELSE IF c.Enabled /\ ~c.WorkerMode /\ c.WorkerAddresses = 0 THEN "distributed"
    ELSE "nil"

\* Config.Validate: the error of the first test that fails, named by what it
\* is about, or "nil".
Config_Validate(c) ==
    IF c.URL = "" THEN "url"
    ELSE IF c.Concurrency <= 0 THEN "concurrency"
    ELSE IF c.Duration <= 0 /\ c.TotalRequests <= 0 THEN "budget"
    ELSE IF c.HTTP2Enabled /\ c.HTTP3Enabled THEN "protocol"
    ELSE IF c.Enabled /\ ~c.WorkerMode /\ c.WorkerAddresses = 0 THEN "distributed"
    ELSE "nil"

PureFrame == <<runVars, cancelled, limVars, valVars, seriesVars, keyVars, tp, pureIn>>

\* A caller validates a configuration.
callConfigValidate ==
    /\ pureCall = "none"
    /\ pureCall' = "Config.Validate"
    /\ pureOut' = Config_Validate(pureIn)
    /\ UNCHANGED PureFrame

\* Any configuration is about to be validated.
CfgInit ==
    /\ RunInit({CHOOSE c \in Configs : c.LoadPattern = "constant"}) /\ NewRateLimiter
    /\ ValidatorIdle /\ NewCollector
    /\ pureIn \in ValidateInputs /\ pureCall = "none" /\ pureOut = "unset"

CfgNext == callConfigValidate

CfgSpec == CfgInit /\ [][CfgNext]_vars

\* C28: Config.Validate returns an error for every configuration with an empty
\* URL, or a concurrency <= 0, or neither duration nor total_requests positive,
\* or HTTP/2 and HTTP/3 both enabled.
C28_InvalidConfigRejected ==
    pureCall = "Config.Validate" =>
        ((\/ pureIn.URL = ""
          \/ pureIn.Concurrency <= 0
          \/ ~(pureIn.Duration > 0 \/ pureIn.TotalRequests > 0)
          \/ (pureIn.HTTP2Enabled /\ pureIn.HTTP3Enabled)) => pureOut # "nil")

\* A configuration whose only defect is a zero duration with a zero total has
\* been rejected.
C28_Witness ==
    /\ pureCall = "Config.Validate"
    /\ pureIn.URL # "" /\ pureIn.Concurrency > 0
    /\ pureIn.Duration = 0 /\ pureIn.TotalRequests = 0
    /\ ~pureIn.HTTP2Enabled /\ ~pureIn.Enabled
    /\ pureOut = "budget"

\* ---------------------------------------------------------------------------
\* Derived rates
\* ---------------------------------------------------------------------------

\* A rate is kept as the division that produced it; a rate that was never
\* computed keeps its initial value 0.0.
ZeroRate == [divided |-> FALSE, num |-> 0, den |-> 1]
Quotient(n, d) == [divided |-> TRUE, num |-> n, den |-> d]

\* The counters and the measured duration (in seconds) the rates are derived from.
RateInputs ==
    [TotalRequests : 0..MaxTotal, SuccessRequests : 0..MaxTotal, TotalErrors : 0..MaxTotal,
     BytesReceived : 0..1, BytesSent : 0..1, Seconds : 0..MaxDuration]

\* generateResults without its test of the duration.
Throughput_unguarded(r) == Quotient(r.TotalRequests, r.Seconds)

\* generateResults: the throughput of the run.
Throughput(r) == IF r.Seconds > 0 THEN Quotient(r.TotalRequests, r.Seconds) ELSE ZeroRate

\* JSONReporter.Generate: success rate, receive rate and send rate.
successRate(r) ==
    IF r.TotalRequests > 0 THEN Quotient(r.SuccessRequests * 100, r.TotalRequests) ELSE ZeroRate
receiveRate(r) == IF r.Seconds > 0 THEN Quotient(r.BytesReceived, r.Seconds) ELSE ZeroRate
sendRate(r) == IF r.Seconds > 0 THEN Quotient(r.BytesSent, r.Seconds) ELSE ZeroRate

\* recordTimePoint: the error rate of a time-series point.
errorRate(snapshot) ==
    IF snapshot.TotalRequests > 0 THEN Quotient(snapshot.TotalErrors, snapshot.TotalRequests)
    ELSE ZeroRate

\* generateResults computes the throughput of the results.
generateResults_Throughput ==
    /\ pureCall = "none"
    /\ pureCall' = "generateResults"
    /\ pureOut' = [Throughput |-> Throughput(pureIn)]
    /\ UNCHANGED PureFrame

\* JSONReporter.Generate computes the rates of the report.
JSONReporter_Generate ==
    /\ pureCall = "none"
    /\ pureCall' = "Generate"
    /\ pureOut' = [successRate |-> successRate(pureIn), receiveRate |-> receiveRate(pureIn),
                   sendRate |-> sendRate(pureIn)]
    /\ UNCHANGED PureFrame

\* recordTimePoint computes the error rate of a point.
recordTimePoint_errorRate ==
    /\ pureCall = "none"
    /\ pureCall' = "recordTimePoint"
    /\ pureOut' = [errorRate |-> errorRate(pureIn)]
    /\ UNCHANGED PureFrame

\* Any counters and any duration are about to be turned into rates.
RateInit ==
    /\ RunInit({CHOOSE c \in Configs : c.LoadPattern = "constant"}) /\ NewRateLimiter
    /\ ValidatorIdle /\ NewCollector
    /\ pureIn \in RateInputs /\ pureCall = "none" /\ pureOut = "unset"

RateNext == generateResults_Throughput \/ JSONReporter_Generate \/ recordTimePoint_errorRate

RateSpec == RateInit /\ [][RateNext]_vars

\* The divisor of each rate.
Divisor(name) ==
    IF name \in {"successRate", "errorRate"} THEN pureIn.TotalRequests ELSE pureIn.Seconds

\* C29: throughput, success rate, error rate, receive rate and send rate are
\* divided only by a positive divisor, and are 0 when their divisor is 0 (no
\* request recorded, or no measured duration).
C29_RatesGuarded ==
    pureCall # "none" =>
        \A name \in DOMAIN pureOut :
            /\ pureOut[name].divided => (pureOut[name].den = Divisor(name) /\ pureOut[name].den > 0)
            /\ Divisor(name) = 0 => pureOut[name] = ZeroRate

\* The results of a run with no request and no measured duration got a zero
\* throughput.
C29_Witness ==
    /\ pureCall = "generateResults"
    /\ pureIn.TotalRequests = 0 /\ pureIn.Seconds = 0
    /\ pureOut.Throughput = ZeroRate

\* ---------------------------------------------------------------------------
\* stats.Collector with a clock: Snapshot, recordTimePoint, GetTimeSeries, Reset
\* ---------------------------------------------------------------------------
\* Tasks that call the collector while a worker records the requests of a run.

ColBase == <<snapCalls, cfg, mainVars, wg, ctxVars, workers, chanVars, genVars, rampVars, burstVars, monVars,
             tickerC, tickerNext, tickerStopped, pcWait, returnTimes, closed, valVars, pureVars,
             counters, recCalls>>
ColFrame == <<ColBase, counterAt>>

\* One second passes.
secondPasses ==
    /\ now < MaxSeconds
    /\ now' = now + 1
    /\ UNCHANGED <<ColFrame, snapVars, collector, timeSeries, lastSnapshot, tp, held, seriesCopy,
                   resets>>

\* A task calls Snapshot: the results generator once, the monitor again and
\* again.  held remembers the snapshots that had been returned to their
\* callers before this call began.
Snapshot_call(s) ==
    /\ snapPc[s] = "idle" \/ (s = "monitor" /\ snapPc[s] = "returned")
    /\ snapCalls[s] < MaxSnapshots
    /\ snapCalls' = [snapCalls EXCEPT ![s] = @ + 1]
    /\ held' = [held EXCEPT ![s] = {snap[t] : t \in {u \in Snappers : snapPc[u] = "returned"}}]
    /\ snap' = [snap EXCEPT ![s] = NoSnapshot]
    /\ snapPc' = [snapPc EXCEPT ![s] = "total"]
    /\ UNCHANGED <<cfg, mainVars, wg, ctxVars, workers, chanVars, genVars, rampVars, burstVars,
                   monVars, limVars, valVars, pureVars, keyVars, collector, timeSeries, lastSnapshot, tp,
                   seriesCopy, resets>>

\* getLastTotalRequests: 0 for an empty series, and 0 otherwise as well.
getLastTotalRequests == IF Len(timeSeries) = 0 THEN 0 ELSE 0

\* The point recordTimePoint builds from the snapshot and its locals.
\* TotalRequests is not a field of TimePoint: it keeps the total of the
\* snapshot the point was computed from.
TimePoint(s) ==
    [Timestamp |-> tp[s].now,
     RPS |-> Quotient(snap[s].TotalRequests - getLastTotalRequests, tp[s].duration),
     ErrorRate |-> errorRate(snap[s]),
     TotalRequests |-> snap[s].TotalRequests]

\* recordTimePoint: c.timeSeries = append(c.timeSeries, point), under timeSeriesMu.
recordTimePoint_append(s) ==
    /\ snapPc[s] = "append"
    /\ timeSeries' = Append(timeSeries, TimePoint(s))
    /\ snapPc' = [snapPc EXCEPT ![s] = "setLast"]
    /\ UNCHANGED <<ColFrame, now, snap, collector, lastSnapshot, tp, held, seriesCopy, resets>>

\* recordTimePoint: c.lastSnapshot = now, without a lock; Snapshot returns.
\* A racing read of c.lastSnapshot sees the value before or after this write.
recordTimePoint_setLast(s) ==
    /\ snapPc[s] = "setLast"
    /\ lastSnapshot' = tp[s].now
    /\ snapPc' = [snapPc EXCEPT ![s] = "returned"]
    /\ UNCHANGED <<ColFrame, now, snap, collector, timeSeries, tp, held, seriesCopy, resets>>

\* GetTimeSeries returning c.timeSeries itself.
GetTimeSeries_noCopy ==
    /\ ~seriesCopy.got
    /\ seriesCopy' = [got |-> TRUE, shared |-> TRUE, elems |-> <<>>]
    /\ UNCHANGED <<ColFrame, now, snapVars, collector, timeSeries, lastSnapshot, tp, held, resets>>

\* GetTimeSeries: result := make([]TimePoint, len(c.timeSeries)); copy(result,
\* c.timeSeries), under timeSeriesMu.RLock.
GetTimeSeries ==
    /\ ~seriesCopy.got
    /\ seriesCopy' = [got |-> TRUE, shared |-> FALSE,
                      elems |-> [i \in 1..Len(timeSeries) |-> timeSeries[i]]]
    /\ UNCHANGED <<ColFrame, now, snapVars, collector, timeSeries, lastSnapshot, tp, held, resets>>

\* Mutant of Reset_counters: totalErrors is not stored 0.
Reset_counters_keepsErrors ==
    /\ seriesCopy.got
    /\ resets.pc = "idle" /\ resets.n < MaxResets
    /\ totalRequests' = 0 /\ successRequests' = 0
    /\ bytesReceived' = 0 /\ bytesSent' = 0
    /\ resets' = [resets EXCEPT !.pc = "maps"]
    /\ UNCHANGED <<ColFrame, now, snapVars, totalErrors, errorsByType, statusCodes, timeSeries,
                   lastSnapshot, tp, held, seriesCopy>>

\* Reset, called by the task that holds the slice from GetTimeSeries: the five
\* counters are stored 0.
Reset_counters ==
    /\ seriesCopy.got
    /\ resets.pc = "idle" /\ resets.n < MaxResets
    /\ totalRequests' = 0 /\ successRequests' = 0 /\ totalErrors' = 0
    /\ bytesReceived' = 0 /\ bytesSent' = 0
    /\ resets' = [resets EXCEPT !.pc = "maps"]
    /\ UNCHANGED <<ColFrame, now, snapVars, errorsByType, statusCodes, timeSeries, lastSnapshot,
                   tp, held, seriesCopy>>

\* Reset: errorsByType and statusCodes are replaced by empty maps; the counters
\* the old maps pointed to are left to whoever still holds a pointer.
Reset_maps ==
    /\ resets.pc = "maps"
    /\ errorsByType' = [k \in Kinds |-> 0]
    /\ statusCodes' = [c \in Codes |-> 0]
    /\ counterAt' = [m \in Maps |-> [k \in KeysOf(m) |-> 0]]
    /\ resets' = [resets EXCEPT !.pc = "timeSeries"]
    /\ UNCHANGED <<ColBase, now, snapVars, totalRequests, successRequests, totalErrors,
                   byteCounters, timeSeries, lastSnapshot, tp, held, seriesCopy>>

\* Reset: c.timeSeries = make([]TimePoint, 0); c.lastSnapshot = time.Now().
Reset_timeSeries ==
    /\ resets.pc = "timeSeries"
    /\ timeSeries' = <<>>
    /\ lastSnapshot' = now
    /\ resets' = [n |-> resets.n + 1, pc |-> "idle"]
    /\ UNCHANGED <<ColFrame, now, snapVars, collector, tp, held, seriesCopy>>

\* A run of MaxShapeTotal requests by one worker, about to start; the clock
\* stands still, so that no Snapshot appends a time-series point.
ColInit ==
    /\ RunInit({c \in Configs : /\ c.LoadPattern = "constant" /\ c.Concurrency = 1
                                /\ c.Duration = 0 /\ c.TotalRequests = MaxShapeTotal
                                /\ c.RateLimit = 0 /\ ~c.RealtimeMonitor})
    /\ NewRateLimiter /\ ValidatorIdle /\ PureIdle /\ NewCollector

\* The worker records the requests of the run while a task calls Snapshot again
\* and again and another calls GetTimeSeries and then Reset.
ColNext ==
    \/ runConstant
    \/ generateRequests_loop
    \/ generateRequests_send
    \/ \E w \in Slots : createRequest(w)
    \/ \E w \in Slots : clientDo(w)
    \/ \E w \in Slots : RecordError_total(w)
    \/ \E w \in Slots : RecordError_kind(w)
    \/ \E w \in Slots : RecordRequest_total(w)
    \/ \E w \in Slots : RecordRequest_outcome(w)
    \/ \E w \in Slots : RecordRequest_bytesReceived(w)
    \/ \E w \in Slots : RecordRequest_bytesSent(w)
    \/ \E w \in Slots : RecordStatusCode(w)
    \/ Snapshot_call("monitor")
    \/ \E s \in Snappers : Snapshot_total(s)
    \/ \E s \in Snappers : Snapshot_success(s)
    \/ \E s \in Snappers : Snapshot_errors(s)
    \/ \E s \in Snappers : Snapshot_bytesReceived(s)
    \/ \E s \in Snappers : Snapshot_bytesSent(s)
    \/ \E s \in Snappers : Snapshot_errorsByType(s)
    \/ \E s \in Snappers : Snapshot_statusCodes(s)
    \/ GetTimeSeries
    \/ Reset_counters
    \/ Reset_maps
    \/ Reset_timeSeries

ColSpec == ColInit /\ [][ColNext]_vars

\* A run of one request whose token is in the closed channel, the worker at
\* its select; the clock runs.
SeriesInit ==
    /\ cfg \in {c \in Configs : /\ c.LoadPattern = "constant" /\ c.Concurrency = 1
                                /\ c.Duration = 0 /\ c.TotalRequests = MaxShapeTotal
                                /\ c.RateLimit = 0 /\ ~c.RealtimeMonitor}
    /\ pcMain = "wait" /\ wg = 1 /\ results = NoResults /\ err = "unset" /\ returned = FALSE
    /\ cancelled = FALSE /\ deadlineFired = FALSE
    /\ workers = [w \in Slots |-> IF w = 1 THEN IdleWorker(TimeoutCtx) ELSE NoWorker]
    /\ chanLen = 1 /\ chanClosed = TRUE
    /\ pcGen = "exited" /\ requestCount = 1
    /\ pcRamp = "off" /\ currentConcurrency = 0 /\ rampI = 0 /\ step = 0 /\ wcLen = 0
    /\ pcBurst = "off" /\ burstGen = 0 /\ spawnI = 0 /\ burstExpired = FALSE
    /\ pcMon = "off" /\ monTicks = 0
    /\ snapPc = [s \in Snappers |-> "idle"] /\ snap = [s \in Snappers |-> NoSnapshot]
    /\ totalRequests = 0 /\ successRequests = 0 /\ totalErrors = 0
    /\ bytesReceived = 0 /\ bytesSent = 0
    /\ errorsByType = [k \in Kinds |-> 0] /\ statusCodes = [c \in Codes |-> 0]
    /\ NewRateLimiter /\ ValidatorIdle /\ PureIdle /\ NewCollector

\* The worker records the request while a task calls Snapshot again and again
\* and another calls GetTimeSeries and then Reset.
SeriesNext ==
    \/ \E w \in Slots : createRequest(w)
    \/ \E w \in Slots : clientDo(w)
    \/ \E w \in Slots : RecordError_total(w)
    \/ \E w \in Slots : RecordError_kind(w)
    \/ \E w \in Slots : RecordRequest_total(w)
    \/ \E w \in Slots : RecordRequest_outcome(w)
    \/ \E w \in Slots : RecordRequest_bytesReceived(w)
    \/ \E w \in Slots : RecordRequest_bytesSent(w)
    \/ \E w \in Slots : RecordStatusCode(w)
    \/ Snapshot_call("monitor")
    \/ \E s \in Snappers : Snapshot_total(s)
    \/ \E s \in Snappers : Snapshot_success(s)
    \/ \E s \in Snappers : Snapshot_errors(s)
    \/ \E s \in Snappers : Snapshot_bytesReceived(s)
    \/ \E s \in Snappers : Snapshot_bytesSent(s)
    \/ \E s \in Snappers : Snapshot_errorsByType(s)
    \/ \E s \in Snappers : Snapshot_statusCodes(s)
    \/ \E s \in Snappers : recordTimePoint_append(s)
    \/ \E s \in Snappers : recordTimePoint_setLast(s)
    \/ GetTimeSeries
    \/ Reset_counters
    \/ Reset_maps
    \/ Reset_timeSeries
    \/ secondPasses

SeriesSpec == SeriesInit /\ [][SeriesNext]_vars

\* The monitor and the results generator call Snapshot while the clock runs.
RaceNext ==
    \/ \E s \in Snappers : Snapshot_call(s)
    \/ \E s \in Snappers : Snapshot_total(s)
    \/ \E s \in Snappers : Snapshot_success(s)
    \/ \E s \in Snappers : Snapshot_errors(s)
    \/ \E s \in Snappers : Snapshot_bytesReceived(s)
    \/ \E s \in Snappers : Snapshot_bytesSent(s)
    \/ \E s \in Snappers : Snapshot_errorsByType(s)
    \/ \E s \in Snappers : Snapshot_statusCodes(s)
    \/ \E s \in Snappers : recordTimePoint_append(s)
    \/ \E s \in Snappers : recordTimePoint_setLast(s)
    \/ secondPasses

RaceSpec == SeriesInit /\ [][RaceNext]_vars

\* Every counter of snapshot a is at most the same counter of snapshot b.
SnapLeq(a, b) ==
    /\ a.TotalRequests <= b.TotalRequests
    /\ a.SuccessRequests <= b.SuccessRequests
    /\ a.TotalErrors <= b.TotalErrors
    /\ a.BytesReceived <= b.BytesReceived
    /\ a.BytesSent <= b.BytesSent
    /\ \A k \in Kinds : a.ErrorsByType[k] <= b.ErrorsByType[k]
    /\ \A c \in Codes : a.StatusCodes[c] <= b.StatusCodes[c]

\* C24: as long as Reset has not been called, every counter of a snapshot is
\* >= the same counter of every snapshot that was returned before its call
\* began: total, success, errors, bytes received, bytes sent, each per-kind
\* error count and each per-status count.
C24_SnapshotsNonDecreasing ==
    resets = NoReset =>
        \A s \in Snappers : snapPc[s] = "returned" => \A h \in held[s] : SnapLeq(h, snap[s])

\* C24 witness: without a Reset, a snapshot taken before the request was
\* recorded is followed by one that counts it.
C24_Witness ==
    /\ resets = NoReset /\ snapPc["monitor"] = "returned"
    /\ \E h \in held["monitor"] :
          /\ h.TotalRequests = 0 /\ snap["monitor"].TotalRequests = 1
          /\ h.BytesSent < snap["monitor"].BytesSent
          /\ h.StatusCodes[200] < snap["monitor"].StatusCodes[200]

\* C25: any two consecutive points of the time series are at least one second
\* apart, also when two tasks call Snapshot concurrently.
C25_PointsOneSecondApart ==
    \A i \in 2..Len(timeSeries) :
        timeSeries[i].Timestamp - timeSeries[i - 1].Timestamp >= MinPointGap

\* C26: the RPS of every point after the first is the total of its snapshot
\* minus the total at the previous point, divided by the seconds between the
\* two points.
C26_DeltaSincePreviousPoint ==
    \A i \in 2..Len(timeSeries) :
        timeSeries[i].RPS = Quotient(timeSeries[i].TotalRequests - timeSeries[i - 1].TotalRequests,
                                     timeSeries[i].Timestamp - timeSeries[i - 1].Timestamp)

\* What the holder of the slice returned by GetTimeSeries sees in it.
View == IF seriesCopy.shared THEN timeSeries ELSE seriesCopy.elems
ViewNext == IF seriesCopy'.shared THEN timeSeries' ELSE seriesCopy'.elems

\* C27: no step of the collector (RecordRequest, RecordError, RecordStatusCode,
\* Reset, a further Snapshot or time-series point) changes a snapshot that has
\* been returned or the slice that GetTimeSeries returned.
C27_CopiesUnchanged ==
    [][/\ \A s \in Snappers :
             (snapPc[s] = "returned" /\ snapPc'[s] = "returned") => snap'[s] = snap[s]
       /\ seriesCopy.got => (seriesCopy'.got /\ ViewNext = View)]_vars

\* C27 witness: the slice still holds the point it was returned with and the
\* snapshot still counts the request, after a Reset emptied the collector.
C27_Witness ==
    /\ seriesCopy.got /\ Len(View) = 1
    /\ resets = [n |-> 1, pc |-> "idle"] /\ timeSeries = <<>> /\ totalRequests = 0
    /\ snapPc["monitor"] = "returned" /\ snap["monitor"].TotalRequests = 1

\* ---- Cancellation, accounting per token ---------------------------------
\* C31: once the run context was cancelled, a worker waiting in its select
\* only stays there or exits: it takes no further token from the channel.
C31_NoNewRequestAfterCancel ==
    [][\A w \in Slots :
          (cancelled /\ workers[w].pc = "idle") => workers'[w].pc \in {"idle", "exited"}]_vars

\* C37: whenever no worker is executing, RecordRequest has been called once
\* for every token taken from the channel.
C37_OneRecordRequestPerToken ==
    (\A w \in Slots : ~Executing(w)) => totalRequests = Consumed

\* C38: whenever no worker is executing, the per-kind error counters add up to
\* the requests executed so far that were not recorded as successes.
C38_KindsSumToFailures ==
    (\A w \in Slots : ~Executing(w)) => SumKinds(errorsByType) = Consumed - successRequests

\* C38 witness: two requests were executed and the workers are back in their
\* select; one request succeeded and the other failed reading the body.
C38_Witness ==
    /\ \A w \in Slots : ~Executing(w)
    /\ \E w \in Slots : workers[w].pc = "idle"
    /\ Consumed = MaxTotal /\ successRequests = 1
    /\ errorsByType["body_read"] = 1 /\ SumKinds(errorsByType) = 1

\* ---- Validation of a response -------------------------------------------
\* The six conditions on the configuration and the response; the value of a
\* header is what Header.Get returns for it ("" for a header that is absent).
StatusAllowed == valIn.cfg.StatusCodes = {} \/ valIn.resp.StatusCode \in valIn.cfg.StatusCodes
HeadersAsExpected == \A kv \in valIn.cfg.HeaderValidation : valIn.resp.Header[kv[1]] = kv[2]
SizeWithinLimits ==
    /\ valIn.cfg.MinSize > 0 => Len(valIn.body) >= valIn.cfg.MinSize
    /\ valIn.cfg.MaxSize > 0 => Len(valIn.body) <= valIn.cfg.MaxSize
RequiredPresent ==
    \A i \in 1..Len(valIn.cfg.Contains) : bytesContains(valIn.body, valIn.cfg.Contains[i])
ForbiddenAbsent ==
    \A i \in 1..Len(valIn.cfg.NotContains) : ~bytesContains(valIn.body, valIn.cfg.NotContains[i])
CompiledPatternsMatch ==
    \A i \in 1..Len(valIn.cfg.ContentPatterns) :
        Compiles(valIn.cfg.ContentPatterns[i]) => Match(valIn.cfg.ContentPatterns[i], valIn.body)

\* C33: Validate returns nil exactly when the status is allowed (or no set is
\* configured), every configured header has the expected value, the body size
\* is within the configured limits, every required substring occurs, no
\* forbidden one does, and every pattern that compiled matches.
C33_NilExactlyWhenAllHold ==
    valCall = "Validate" =>
        (valErr = "nil" <=> /\ StatusAllowed /\ HeadersAsExpected /\ SizeWithinLimits
                            /\ RequiredPresent /\ ForbiddenAbsent /\ CompiledPatternsMatch)

\* C33 witness: Validate returned nil for a response checked against an
\* allowed set, a header, a minimum size, a required and a forbidden substring
\* and a pattern that did not compile.
C33_Witness ==
    /\ valCall = "Validate" /\ valErr = "nil"
    /\ valIn.cfg.StatusCodes # {} /\ valIn.cfg.HeaderValidation # {}
    /\ valIn.cfg.MinSize > 0 /\ valIn.cfg.Contains # <<>> /\ valIn.cfg.NotContains # <<>>
    /\ valIn.cfg.ContentPatterns = <<"(">>

\* C34: a response that executeRequest validates and whose latency exceeds a
\* configured response_time_max gets a validation error (and is then recorded
\* as a failure of kind validation).
C34_SlowResponseFailsValidation ==
    (/\ valCall = "executeRequest"
     /\ valIn.cfg.ResponseTimeMax > 0 /\ valIn.latency > valIn.cfg.ResponseTimeMax)
        => valErr # "nil"

\* ---- generateRequests with a rate limiter --------------------------------
\* What b.rateLimiter.Wait(ctx) called by the generator leaves alone.
PaceFrame == <<cfg, mainVars, wg, ctxVars, workers, chanVars, requestCount, rampVars, burstVars,
               monVars, snapVars, collector, valVars, pureVars, keyVars, seriesVars, tp,
               now, tickerNext, tickerStopped, pcWait, closed>>

\* generateRequests: b.rateLimiter.Wait(ctx), select case <-r.ticker.C: the
\* tick is taken and the generator goes on to its send.
generateRequests_Wait_tick ==
    /\ pcGen = "wait"
    /\ tickerC = 1
    /\ tickerC' = 0
    /\ returnTimes' = Append(returnTimes, now)
    /\ pcGen' = "send"
    /\ UNCHANGED PaceFrame

\* generateRequests: b.rateLimiter.Wait(ctx), select case <-ctx.Done(): Wait
\* returns nothing, so the generator goes on to its send all the same.
generateRequests_Wait_ctxDone ==
    /\ pcGen = "wait"
    /\ CtxDone(RunCtx)
    /\ pcGen' = "send"
    /\ UNCHANGED <<PaceFrame, tickerC, returnTimes>>

\* A constant run of MaxTotal requests by one worker, paced by a limiter, up
\* to the point where Run waits for its goroutines.
PaceInit ==
    /\ RunInit({c \in Configs : /\ c.LoadPattern = "constant" /\ c.RateLimit > 0
                                /\ c.Concurrency = 1 /\ c.TotalRequests = MaxTotal})
    /\ NewRateLimiter /\ ValidatorIdle /\ PureIdle /\ NewCollector

PaceNext ==
    \/ runConstant
    \/ generateRequests_loop
    \/ generateRequests_Wait_tick
    \/ generateRequests_Wait_ctxDone
    \/ generateRequests_send
    \/ generateRequests_cancel
    \/ \E w \in Slots : workerCtxDone(w)
    \/ \E w \in Slots : workerChanClosed(w)
    \/ \E w \in Slots : createRequest(w)
    \/ \E w \in Slots : clientDo(w)
    \/ \E w \in Slots : RecordError_total(w)
    \/ \E w \in Slots : RecordError_kind(w)
    \/ \E w \in Slots : RecordRequest_total(w)
    \/ \E w \in Slots : RecordRequest_outcome(w)
    \/ \E w \in Slots : RecordRequest_bytesReceived(w)
    \/ \E w \in Slots : RecordRequest_bytesSent(w)
    \/ \E w \in Slots : RecordStatusCode(w)
    \/ timePasses
    \/ Cancel
    \/ Deadline

PaceSpec == PaceInit /\ [][PaceNext]_vars

\* Ticks the generator has taken from the limiter's channel.
TicksConsumed == Len(returnTimes)

\* C32: with a rate limiter configured, the tokens placed on the channel never
\* outnumber the limiter ticks the generator has consumed.
C32_TokenPerTick == cfg.RateLimit > 0 => Produced <= TicksConsumed

\* ---- the per-key counters of the collector -------------------------------
\* errorsByType and statusCodes map a key to a pointer to an atomic counter.
\* counterAt[m][k] is the counter map m holds for k (0: no entry), counters the
\* values of the counters allocated so far.
KeyFrame == <<cfg, mainVars, wg, ctxVars, workers, chanVars, genVars, rampVars, burstVars,
              monVars, snapVars, totalRequests, successRequests, byteCounters, errorsByType,
              statusCodes, limVars, valVars, pureVars, seriesVars, tp>>

\* RecordError(errorType, err): c.totalErrors.Add(1), then c.errorsMu.Lock().
RecordError_call(c) ==
    /\ recCalls[c].pc = "idle"
    /\ \E k \in Kinds :
          recCalls' = [recCalls EXCEPT ![c] = [NoCall EXCEPT !.pc = "lock",
                                                            !.map = "errorsByType", !.key = k]]
    /\ totalErrors' = totalErrors + 1
    /\ UNCHANGED <<KeyFrame, counterAt, counters>>

\* RecordStatusCode(code): c.statusMu.Lock().
RecordStatusCode_call(c) ==
    /\ recCalls[c].pc = "idle"
    /\ \E k \in Codes :
          recCalls' = [recCalls EXCEPT ![c] = [NoCall EXCEPT !.pc = "lock",
                                                            !.map = "statusCodes", !.key = k]]
    /\ UNCHANGED <<KeyFrame, totalErrors, counterAt, counters>>

\* Mutant of lookupOrCreate: a counter is created whether or not the key has one.
lookupOrCreate_alwaysCreate(c) ==
    LET m == recCalls[c].map
        k == recCalls[c].key
    IN  /\ recCalls[c].pc = "lock"
        /\ counters' = Append(counters, 0)
        /\ counterAt' = [counterAt EXCEPT ![m][k] = Len(counters) + 1]
        /\ recCalls' = [recCalls EXCEPT ![c].pc = "add", ![c].ref = Len(counters) + 1,
                                        ![c].exists = counterAt[m][k] # 0]
        /\ UNCHANGED <<KeyFrame, totalErrors>>

\* Between Lock() and Unlock(), one step: counter, exists := m[key]; if !exists
\* { counter = &atomic.Int64{}; m[key] = counter }.  The caller leaves with the
\* pointer it found or stored.
lookupOrCreate(c) ==
    LET m == recCalls[c].map
        k == recCalls[c].key
    IN  /\ recCalls[c].pc = "lock"
        /\ IF counterAt[m][k] = 0
           THEN /\ counters' = Append(counters, 0)
                /\ counterAt' = [counterAt EXCEPT ![m][k] = Len(counters) + 1]
                /\ recCalls' = [recCalls EXCEPT ![c].pc = "add", ![c].ref = Len(counters) + 1]
           ELSE /\ recCalls' = [recCalls EXCEPT ![c].pc = "add", ![c].ref = counterAt[m][k],
                                                ![c].exists = TRUE]
                /\ UNCHANGED <<counterAt, counters>>
        /\ UNCHANGED <<KeyFrame, totalErrors>>

\* counter.Add(1), after the unlock, on the pointer the caller holds.
counterAdd(c) ==
    /\ recCalls[c].pc = "add"
    /\ counters' = [counters EXCEPT ![recCalls[c].ref] = @ + 1]
    /\ recCalls' = [recCalls EXCEPT ![c].pc = "done"]
    /\ UNCHANGED <<KeyFrame, totalErrors, counterAt>>

\* Snapshot: for key, counter := range m { snapshot[key] = counter.Load() };
\* a key without an entry reads as 0 in the snapshot's map.
Snapshot_perKey(m, k) == IF counterAt[m][k] = 0 THEN 0 ELSE counters[counterAt[m][k]]

\* MaxCallers goroutines, each about to record one error or one status code
\* into a new collector.
KeyInit ==
    /\ RunInit({CHOOSE c \in Configs : c.LoadPattern = "constant"}) /\ NewRateLimiter
    /\ ValidatorIdle /\ PureIdle /\ NewCollector

KeyNext ==
    \/ \E c \in Callers : RecordError_call(c)
    \/ \E c \in Callers : RecordStatusCode_call(c)
    \/ \E c \in Callers : lookupOrCreate(c)
    \/ \E c \in Callers : counterAdd(c)

KeySpec == KeyInit /\ [][KeyNext]_vars

\* Calls made on map m with key k that have completed.
CallsDone(m, k) ==
    Cardinality({c \in Callers : /\ recCalls[c].pc = "done"
                                 /\ recCalls[c].map = m /\ recCalls[c].key = k})

\* C35: once every call of RecordError and RecordStatusCode that was made has
\* completed, a snapshot reports under each kind and each code exactly the
\* number of calls made with it.
C35_NoLostUpdate ==
    (\A c \in Callers : recCalls[c].pc \in {"idle", "done"})
        => \A m \in Maps : \A k \in KeysOf(m) : Snapshot_perKey(m, k) = CallsDone(m, k)

\* C35 witness: all MaxCallers calls completed, two of them with the same
\* kind, whose counter one of them created and the other found, and one with
\* a status code; the snapshot reports them all.
C35_Witness ==
    /\ \A c \in Callers : recCalls[c].pc = "done"
    /\ \E c \in Callers : recCalls[c].map = "statusCodes"
    /\ \E k \in Kinds, c, d \in Callers :
          /\ c # d
          /\ recCalls[c].map = "errorsByType" /\ recCalls[c].key = k
          /\ recCalls[d].map = "errorsByType" /\ recCalls[d].key = k
          /\ ~recCalls[c].exists /\ recCalls[d].exists
          /\ Snapshot_perKey("errorsByType", k) = 2

\* ---- Collector.Reset between two requests --------------------------------
\* What Snapshot reports once one request with this outcome has been recorded:
\* a success, or a response with status 500 that the validator rejected.
OneRecorded(kind) ==
    [TotalRequests |-> 1,
     SuccessRequests |-> IF kind = "none" THEN 1 ELSE 0,
     TotalErrors |-> IF kind = "none" THEN 0 ELSE 2,
     BytesReceived |-> BodyLen, BytesSent |-> ContentLength,
     ErrorsByType |-> [k \in Kinds |-> IF k = kind THEN 1 ELSE 0],
     StatusCodes |-> [c \in Codes |-> IF (c = 200) = (kind = "none") THEN 1 ELSE 0]]
OnePoint(kind) ==
    [Timestamp |-> 1, RPS |-> Quotient(1, 1), ErrorRate |-> errorRate(OneRecorded(kind)),
     TotalRequests |-> 1]

\* A constant run of two requests by one worker, one second after its start:
\* the first request has been recorded, the second token is in the closed
\* channel and the worker is at its select; the monitor's Snapshot has returned,
\* having appended a time-series point, and a task holds the slice it got
\* from GetTimeSeries.
ResetInit ==
    /\ cfg \in {c \in Configs : /\ c.LoadPattern = "constant" /\ c.Concurrency = 1
                                /\ c.Duration = 0 /\ c.TotalRequests = 2
                                /\ c.RateLimit = 0 /\ ~c.RealtimeMonitor}
    /\ pcMain = "wait" /\ wg = 1 /\ results = NoResults /\ err = "unset" /\ returned = FALSE
    /\ cancelled = FALSE /\ deadlineFired = FALSE
    /\ workers = [w \in Slots |-> IF w = 1 THEN IdleWorker(TimeoutCtx) ELSE NoWorker]
    /\ chanLen = 1 /\ chanClosed = TRUE
    /\ pcGen = "exited" /\ requestCount = 2
    /\ pcRamp = "off" /\ currentConcurrency = 0 /\ rampI = 0 /\ step = 0 /\ wcLen = 0
    /\ pcBurst = "off" /\ burstGen = 0 /\ spawnI = 0 /\ burstExpired = FALSE
    /\ pcMon = "off" /\ monTicks = 0
    /\ \E kind \in {"none", "validation"} :
          /\ totalRequests = OneRecorded(kind).TotalRequests
          /\ successRequests = OneRecorded(kind).SuccessRequests
          /\ totalErrors = OneRecorded(kind).TotalErrors
          /\ bytesReceived = OneRecorded(kind).BytesReceived
          /\ bytesSent = OneRecorded(kind).BytesSent
          /\ errorsByType = OneRecorded(kind).ErrorsByType
          /\ statusCodes = OneRecorded(kind).StatusCodes
          /\ snap = [s \in Snappers |-> IF s = "monitor" THEN OneRecorded(kind) ELSE NoSnapshot]
          /\ timeSeries = <<OnePoint(kind)>>
          /\ seriesCopy = [got |-> TRUE, shared |-> FALSE, elems |-> <<OnePoint(kind)>>]
    /\ snapPc = [s \in Snappers |-> IF s = "monitor" THEN "returned" ELSE "idle"]
    /\ snapCalls = [s \in Snappers |-> IF s = "monitor" THEN 1 ELSE 0]
    /\ tp = [s \in Snappers |-> IF s = "monitor" THEN [now |-> 1, duration |-> 1] ELSE NoTp]
    /\ held = [s \in Snappers |-> {}]
    /\ lastSnapshot = 1 /\ now = 1
    /\ resets = NoReset
    /\ tickerC = 0 /\ tickerNext = TickInterval /\ tickerStopped = FALSE
    /\ pcWait = "idle" /\ returnTimes = <<>> /\ closed = FALSE
    /\ counterAt = [m \in Maps |-> [k \in KeysOf(m) |-> 0]] /\ counters = <<>>
    /\ recCalls = [c \in Callers |-> NoCall]
    /\ ValidatorIdle /\ PureIdle

\* Reset has completed and no Reset is in progress.
ResetDone == resets.n >= 1 /\ resets.pc = "idle"

\* Reset is called once, with no worker active: the worker takes the second
\* token only after it has completed, and so does the monitor's next Snapshot.
Reset_noWorkerActive == resets.n = 0 /\ Reset_counters
createRequest_afterReset(w) == ResetDone /\ createRequest(w)
Snapshot_call_afterReset(s) == ResetDone /\ Snapshot_call(s)

ResetNext ==
    \/ Reset_noWorkerActive
    \/ Reset_maps
    \/ Reset_timeSeries
    \/ \E w \in Slots : createRequest_afterReset(w)
    \/ \E w \in Slots : clientDo(w)
    \/ \E w \in Slots : RecordError_total(w)
    \/ \E w \in Slots : RecordError_kind(w)
    \/ \E w \in Slots : RecordRequest_total(w)
    \/ \E w \in Slots : RecordRequest_outcome(w)
    \/ \E w \in Slots : RecordRequest_bytesReceived(w)
    \/ \E w \in Slots : RecordRequest_bytesSent(w)
    \/ \E w \in Slots : RecordStatusCode(w)
    \/ Snapshot_call_afterReset("monitor")
    \/ \E s \in Snappers : Snapshot_total(s)
    \/ \E s \in Snappers : Snapshot_success(s)
    \/ \E s \in Snappers : Snapshot_errors(s)
    \/ \E s \in Snappers : Snapshot_bytesReceived(s)
    \/ \E s \in Snappers : Snapshot_bytesSent(s)
    \/ \E s \in Snappers : Snapshot_errorsByType(s)
    \/ \E s \in Snappers : Snapshot_statusCodes(s)
    \/ \E s \in Snappers : recordTimePoint_append(s)
    \/ \E s \in Snappers : recordTimePoint_setLast(s)
    \/ secondPasses

ResetSpec == ResetInit /\ [][ResetNext]_vars

\* Tokens taken from the channel since the Reset (one was taken before it).
SinceReset == Consumed - 1
\* Snapshot calls of the monitor that began after the Reset (one began before).
SnapshotsSinceReset == snapCalls["monitor"] - 1

GoQuot(a, b) == IF (a >= 0) = (b > 0) THEN a \div b ELSE -((-a) \div b)

\* Configurations with load_pattern ramp_up and ramp_up.enabled, over every
\* small value of steps, start_concurrency and end_concurrency.
RampInputs ==
    [URL : {"", "http://h"}, Concurrency : 0..1, Duration : {1}, TotalRequests : {0},
     HTTP2Enabled : {FALSE}, HTTP3Enabled : BOOLEAN,
     Enabled : {FALSE}, WorkerMode : {FALSE}, WorkerAddresses : {0},
     Steps : 0..MaxSteps, StartConcurrency : 0..MaxConc, EndConcurrency : 0..MaxConc]

\* Run -> runRampUp with the validated configuration: the step size
\* concurrencyStep := (EndConcurrency - StartConcurrency) / Steps, an integer
\* division that panics for Steps = 0 (as does Duration / Steps one line above).
runRampUp_concurrencyStep ==
    /\ pureCall = "Config.Validate" /\ pureOut = "nil"
    /\ pureCall' = "runRampUp"
    /\ pureOut' = IF pureIn.Steps = 0 THEN [panic |-> TRUE, concurrencyStep |-> 0]
                  ELSE [panic |-> FALSE,
                        concurrencyStep |-> GoQuot(pureIn.EndConcurrency - pureIn.StartConcurrency,
                                                   pureIn.Steps)]
    /\ UNCHANGED PureFrame

\* Any such configuration is about to be validated and, if accepted, run.
RampInit ==
    /\ RunInit({CHOOSE c \in Configs : c.LoadPattern = "constant"}) /\ NewRateLimiter
    /\ ValidatorIdle /\ NewCollector
    /\ pureIn \in RampInputs /\ pureCall = "none" /\ pureOut = "unset"

RampNext == callConfigValidate \/ runRampUp_concurrencyStep

RampSpec == RampInit /\ [][RampNext]_vars

\* C39: a run of a configuration that Config.Validate accepted does not panic
\* (and does not block forever), whatever its ramp_up values.
C39_AcceptedConfigRuns == pureCall = "runRampUp" => ~pureOut.panic

\* ---- distributed mode: Master.distributeWorkload --------------------------
\* The load of the master's configuration and the number of connected workers.
DistInputs == [Concurrency : 1..MaxLoad, RateLimit : 0..MaxLoad, workerCount : 1..MaxWorkerNodes]

\* distributeWorkload: worker i (from 0) gets Concurrency / workerCount, one
\* more if i < Concurrency % workerCount, and RateLimit / workerCount.
distributeWorkload(c) ==
    [i \in 1..c.workerCount |->
        [Concurrency |-> GoQuot(c.Concurrency, c.workerCount)
                            + (IF i - 1 < c.Concurrency % c.workerCount THEN 1 ELSE 0),
         RateLimit |-> GoQuot(c.RateLimit, c.workerCount)]]

\* Worker.RunBenchmark -> benchmark.New: the run gets a rate limiter exactly
\* when the workload's rate limit is > 0.
RunBenchmark_paced(load) == load.RateLimit > 0

\* The master distributes the load.
callDistributeWorkload ==
    /\ pureCall = "none"
    /\ pureCall' = "distributeWorkload"
    /\ pureOut' = distributeWorkload(pureIn)
    /\ UNCHANGED PureFrame

DistInit ==
    /\ RunInit({CHOOSE c \in Configs : c.LoadPattern = "constant"}) /\ NewRateLimiter
    /\ ValidatorIdle /\ NewCollector
    /\ pureIn \in DistInputs /\ pureCall = "none" /\ pureOut = "unset"

DistNext == callDistributeWorkload

DistSpec == DistInit /\ [][DistNext]_vars

RECURSIVE SumOf(_, _)
\* The sum of field f over the workloads.
SumOf(ws, f) == IF ws = <<>> THEN 0 ELSE Head(ws)[f] + SumOf(Tail(ws), f)

\* C40: the workloads' concurrencies add up to load.concurrency and differ by at
\* most 1; with load.rate_limit > 0 every worker's run is paced (its rate limit
\* is > 0) and the workers' rate limits add up to at most load.rate_limit.
C40_LoadPreserved ==
    pureCall = "distributeWorkload" =>
        /\ SumOf(pureOut, "Concurrency") = pureIn.Concurrency
        /\ \A i, j \in 1..Len(pureOut) :
              pureOut[i].Concurrency - pureOut[j].Concurrency <= 1
        /\ pureIn.RateLimit > 0 =>
              /\ \A i \in 1..Len(pureOut) : RunBenchmark_paced(pureOut[i])
              /\ SumOf(pureOut, "RateLimit") <= pureIn.RateLimit

====
